---- MODULE Spec2Model ----
(***************************************************************************)
(* A model of the nexturbo starter (apps/web): the session redirect gates  *)
(* of the home and dashboard routes, the environment schema, the feature   *)
(* flag resolution on the server and in the client hook, the db and auth   *)
(* modules, the theme provider, the structured logger, the middleware, the *)
(* auth tables, the server action patterns, the two password forms and the *)
(* animation hooks useAnimateOnView and useCountUp.                        *)
(***************************************************************************)
EXTENDS Naturals, Integers, Sequences, FiniteSets, TLC

VARIABLES
    sessions,      \* session rows held by the auth library: [token, userId]
    cookie,        \* session token the browser sends in its headers (0: none)
    nextToken,     \* next session token to issue
    authEvent,     \* last completed auth event
    response,      \* outcome of the last request served
    served,        \* flips on every request served
    servedAfter,   \* the auth event that preceded the last request served
    hops,          \* redirects followed since the last navigation
    signOutPc,     \* position inside handleSignOut
    procEnv,       \* process.env: variable name -> [set, val]
    envStatus,     \* the env module: "unloaded", "ok" or "threw"
    env,           \* the object exported by the env module
    flagsLoaded,   \* whether the feature-flags module has been evaluated
    envOverrides,  \* the module constant envOverrides
    lastRead,      \* the last getFeature call: [flag, value]
    lastAll,       \* the result of the last getAllFeatures call
    lastHook,      \* the last useFeature render on the client: [flag, value]
    storage,       \* localStorage key "theme": [set, val]
    mounted,       \* whether ThemeProvider is mounted
    effectRan,     \* whether the mount effect of this mount has run
    theme,         \* the theme state of the last render
    pending,       \* setTheme values queued since the last render
    classList,     \* document.documentElement.classList
    hist,          \* snapshots taken before the last two toggleTheme calls
    beforeUnmount, \* snapshot taken at the last unmount
    toggled,       \* whether toggleTheme has ever been called
    storage0,      \* the storage content at the first page load
    lastUse,       \* outcome of the last useTheme call
    logEnv,        \* the part of process.env the logger module reads
    logLine,       \* the last logger call and the line it wrote
    mwEnv,         \* the part of process.env the middleware reads
    mwRequest,     \* the last request the middleware handled
    mwResponse,    \* the response the middleware returned for it
    dbUsers,       \* rows of the users table: [id, email]
    dbSessions,    \* rows of the sessions table: [id, token, userId]
    dbAccounts,    \* rows of the accounts table: [id, userId]
    lastDelete,    \* the last user deletion: what it had to cascade to and to keep
    actionCall,    \* the last server action call: its input and its outcome
    rpToken,       \* searchParams.get("token") of the reset page: [set, val]
    rpLoading,     \* isLoading of ResetPasswordForm
    rpError,       \* error of ResetPasswordForm: [set, val], unset for null
    rpPc,          \* position inside its onSubmit: "idle" or "awaiting"
    rpRequests,    \* resetPassword requests issued, in order
    rpNav,         \* the path router.push was called with, or "none"
    rpLast,        \* the last submit and how it ended
    fpLoading,     \* isLoading of ForgotPasswordForm
    fpError,       \* error of ForgotPasswordForm: [set, val], unset for null
    fpEmailSent,   \* emailSent of ForgotPasswordForm
    fpEmail,       \* email of ForgotPasswordForm
    fpPc,          \* position inside its onSubmit: "idle" or "awaiting"
    fpRequests,    \* forgetPassword requests issued, in order
    fpLast,        \* the last event of the form
    inViewport,    \* whether the observed element intersects the viewport
    aovChanges,    \* visibility changes so far
    aovInView,     \* per hook instance: the isInView state of useInView
    aovObserving,  \* per hook instance: whether its observer is still attached
    aovMounted,    \* per hook instance: whether it has rendered
    aovQueue,      \* per hook instance: observer entries not yet delivered
    aovDue,        \* per hook instance: whether its effect is due to run
    aovStarted,    \* per hook instance: the controls.start calls made, in order
    cuEnd,         \* the end argument of useCountUp at the last render
    cuCount,       \* the count state
    cuLoops,       \* the step callbacks waiting for the next animation frame, in request order
    cuGen,         \* effect runs so far: the animation of the last one is the current one
    cuLast,        \* the last animation frame: the count before and after, and who wrote it
    dbClient,      \* the postgres client of the db module: [created, connectionString]
    authInstance   \* the betterAuth instance of the auth module: [created, secret, baseURL]

gateVars ==
    <<sessions, cookie, nextToken, authEvent, response, served, servedAfter, hops,
      signOutPc>>

configVars == <<procEnv, envStatus, env, flagsLoaded, envOverrides, lastRead, lastAll,
                lastHook>>

themeVars ==
    <<storage, mounted, effectRan, theme, pending, classList, hist, beforeUnmount,
      toggled, storage0, lastUse>>

loggerVars == <<logEnv, logLine>>

middlewareVars == <<mwEnv, mwRequest, mwResponse>>

dbVars == <<dbUsers, dbSessions, dbAccounts, lastDelete>>

actionVars == <<actionCall>>

resetVars == <<rpToken, rpLoading, rpError, rpPc, rpRequests, rpNav, rpLast>>

forgotVars == <<fpLoading, fpError, fpEmailSent, fpEmail, fpPc, fpRequests, fpLast>>

viewVars ==
    <<inViewport, aovChanges, aovMounted, aovInView, aovObserving, aovQueue, aovDue,
      aovStarted>>

countVars == <<cuEnd, cuCount, cuLoops, cuGen, cuLast>>

startupVars == <<dbClient, authInstance>>

notGateVars ==
    <<configVars, themeVars, loggerVars, middlewareVars, dbVars, actionVars,
      resetVars, forgotVars, viewVars, countVars, startupVars>>

notConfigVars ==
    <<gateVars, themeVars, loggerVars, middlewareVars, dbVars, actionVars,
      resetVars, forgotVars, viewVars, countVars, startupVars>>

notThemeVars ==
    <<gateVars, configVars, loggerVars, middlewareVars, dbVars, actionVars,
      resetVars, forgotVars, viewVars, countVars, startupVars>>

notLoggerVars ==
    <<gateVars, configVars, themeVars, middlewareVars, dbVars, actionVars,
      resetVars, forgotVars, viewVars, countVars, startupVars>>

notMiddlewareVars ==
    <<gateVars, configVars, themeVars, loggerVars, dbVars, actionVars, resetVars,
      forgotVars, viewVars, countVars, startupVars>>

notDbVars ==
    <<gateVars, configVars, themeVars, loggerVars, middlewareVars, actionVars,
      resetVars, forgotVars, viewVars, countVars, startupVars>>

notActionVars ==
    <<gateVars, configVars, themeVars, loggerVars, middlewareVars, dbVars,
      resetVars, forgotVars, viewVars, countVars, startupVars>>

notResetVars ==
    <<gateVars, configVars, themeVars, loggerVars, middlewareVars, dbVars,
      actionVars, forgotVars, viewVars, countVars, startupVars>>

notForgotVars ==
    <<gateVars, configVars, themeVars, loggerVars, middlewareVars, dbVars,
      actionVars, resetVars, viewVars, countVars, startupVars>>

notViewVars ==
    <<gateVars, configVars, themeVars, loggerVars, middlewareVars, dbVars,
      actionVars, resetVars, forgotVars, countVars, startupVars>>

notCountVars ==
    <<gateVars, configVars, themeVars, loggerVars, middlewareVars, dbVars,
      actionVars, resetVars, forgotVars, viewVars, startupVars>>

notStartupVars ==
    <<gateVars, configVars, themeVars, loggerVars, middlewareVars, dbVars,
      actionVars, resetVars, forgotVars, viewVars, countVars>>

vars ==
    <<gateVars, configVars, themeVars, loggerVars, middlewareVars, dbVars,
      actionVars, resetVars, forgotVars, viewVars, countVars, startupVars>>

(***************************************************************************)
(* Bounds                                                                  *)
(***************************************************************************)
MaxTokens == 3
MaxUsers == 2
MaxHops == 3
MaxPending == 2
MaxFields == 2
MaxRows == 2
MaxSubmits == 3
MaxChanges == 3
MaxRetargets == 2
MaxFrameGap == 2
Duration == 4

Users == 1..MaxUsers
NoToken == 0

(***************************************************************************)
(* Session lookup and the two gates                                        *)
(***************************************************************************)
NoSession == [present |-> FALSE, userId |-> 0]

\* headers(): the request headers carry the browser's cookie
RequestHeaders == [cookie |-> cookie]

\* auth.api.getSession({headers}): the session row of the cookie's token, or null
GetSession(hdrs) ==
    IF \E s \in sessions : s.token = hdrs.cookie
    THEN LET s == CHOOSE r \in sessions : r.token = hdrs.cookie
         IN  [present |-> TRUE, userId |-> s.userId]
    ELSE NoSession

NoResponse ==
    [route |-> "none", session |-> NoSession, kind |-> "none", to |-> "none",
     page |-> "none", navUser |-> 0, children |-> FALSE]

\* a lookup that reuses the session seen by the previous dashboard request
DashboardSessionLookupStale ==
    IF response.route = "/dashboard" THEN response.session
    ELSE GetSession(RequestHeaders)

\* const session = await auth.api.getSession({headers: await headers()})
DashboardSessionLookup == GetSession(RequestHeaders)

\* a layout that redirects and still renders its children
DashboardLayoutLeaky(session) ==
    IF ~session.present
    THEN [route |-> "/dashboard", session |-> session, kind |-> "redirect",
          to |-> "/auth/signin", page |-> "dashboard", navUser |-> 0,
          children |-> TRUE]
    ELSE [route |-> "/dashboard", session |-> session, kind |-> "render",
          to |-> "none", page |-> "dashboard", navUser |-> session.userId,
          children |-> TRUE]

\* DashboardLayout: if (!session) redirect("/auth/signin"); else nav + children
DashboardLayout(session) ==
    IF ~session.present
    THEN [route |-> "/dashboard", session |-> session, kind |-> "redirect",
          to |-> "/auth/signin", page |-> "none", navUser |-> 0,
          children |-> FALSE]
    ELSE [route |-> "/dashboard", session |-> session, kind |-> "render",
          to |-> "none", page |-> "dashboard", navUser |-> session.userId,
          children |-> TRUE]

\* a home page that never redirects
HomeNoRedirect(session) ==
    [route |-> "/", session |-> session, kind |-> "render", to |-> "none",
     page |-> "landing", navUser |-> 0, children |-> FALSE]

\* a home page that sends every visitor to the dashboard
HomeAlwaysRedirect(session) ==
    [route |-> "/", session |-> session, kind |-> "redirect", to |-> "/dashboard",
     page |-> "none", navUser |-> 0, children |-> FALSE]

\* Home: if (session) redirect("/dashboard"); else the landing page
Home(session) ==
    IF session.present
    THEN [route |-> "/", session |-> session, kind |-> "redirect",
          to |-> "/dashboard", page |-> "none", navUser |-> 0,
          children |-> FALSE]
    ELSE [route |-> "/", session |-> session, kind |-> "render", to |-> "none",
          page |-> "landing", navUser |-> 0, children |-> FALSE]

\* SignInPage: rendered for every request, no session check
SignInPage ==
    [route |-> "/auth/signin", session |-> NoSession, kind |-> "render",
     to |-> "none", page |-> "signin", navUser |-> 0, children |-> FALSE]

\* the framework's routing: the route's server component runs for the request
Serve(route) ==
    CASE route = "/dashboard" -> DashboardLayout(DashboardSessionLookup)
      [] route = "/" -> Home(GetSession(RequestHeaders))
      [] OTHER -> SignInPage

(***************************************************************************)
(* Gate actions                                                            *)
(***************************************************************************)
GateInit ==
    /\ sessions = {}
    /\ cookie = NoToken
    /\ nextToken = 1
    /\ authEvent = "none"
    /\ response = NoResponse
    /\ served = FALSE
    /\ servedAfter = "none"
    /\ hops = 0
    /\ signOutPc = "idle"

\* a sign-in completes: the auth library stores a session and sets the cookie
SignIn(u) ==
    /\ signOutPc = "idle"
    /\ nextToken <= MaxTokens
    /\ sessions' = sessions \cup {[token |-> nextToken, userId |-> u]}
    /\ cookie' = nextToken
    /\ nextToken' = nextToken + 1
    /\ authEvent' = "signin"
    /\ UNCHANGED <<response, served, servedAfter, hops, signOutPc>>
    /\ UNCHANGED notGateVars

\* the session row expires or is revoked on the server; the cookie stays
ExpireSession ==
    /\ \E s \in sessions :
          /\ sessions' = sessions \ {s}
          /\ authEvent' = IF s.token = cookie THEN "expired" ELSE authEvent
    /\ UNCHANGED <<cookie, nextToken, response, served, servedAfter, hops, signOutPc>>
    /\ UNCHANGED notGateVars

\* a navigation to the dashboard route
RequestDashboard ==
    /\ response' = Serve("/dashboard")
    /\ served' = ~served
    /\ servedAfter' = authEvent
    /\ hops' = 0
    /\ UNCHANGED <<sessions, cookie, nextToken, authEvent, signOutPc>>
    /\ UNCHANGED notGateVars

\* a navigation to the home route
RequestHome ==
    /\ response' = Serve("/")
    /\ served' = ~served
    /\ servedAfter' = authEvent
    /\ hops' = 0
    /\ UNCHANGED <<sessions, cookie, nextToken, authEvent, signOutPc>>
    /\ UNCHANGED notGateVars

\* the browser follows the redirect of the last response
FollowRedirect ==
    /\ response.kind = "redirect"
    /\ hops < MaxHops
    /\ response' = Serve(response.to)
    /\ served' = ~served
    /\ servedAfter' = authEvent
    /\ hops' = hops + 1
    /\ UNCHANGED <<sessions, cookie, nextToken, authEvent, signOutPc>>
    /\ UNCHANGED notGateVars

\* handleSignOut is entered: await signOut() is pending
SignOutStart ==
    /\ signOutPc = "idle"
    /\ response.kind = "render"
    /\ response.page = "dashboard"
    /\ signOutPc' = "awaiting"
    /\ UNCHANGED <<sessions, cookie, nextToken, authEvent, response, served, servedAfter, hops>>
    /\ UNCHANGED notGateVars

\* a handler that goes on to navigate without waiting for signOut()
SignOutNotAwaited ==
    /\ signOutPc = "awaiting"
    /\ signOutPc' = "push"
    /\ UNCHANGED <<sessions, cookie, nextToken, authEvent, response, served, servedAfter,
                   hops>>
    /\ UNCHANGED notGateVars

\* signOut() resolves: the session row and the cookie are gone
SignOutComplete ==
    /\ signOutPc = "awaiting"
    /\ sessions' = {s \in sessions : s.token # cookie}
    /\ cookie' = NoToken
    /\ authEvent' = "signout"
    /\ signOutPc' = "push"
    /\ UNCHANGED <<nextToken, response, served, servedAfter, hops>>
    /\ UNCHANGED notGateVars

\* router.push("/")
SignOutPush ==
    /\ signOutPc = "push"
    /\ response' = Serve("/")
    /\ served' = ~served
    /\ servedAfter' = authEvent
    /\ hops' = 0
    /\ signOutPc' = "refresh"
    /\ UNCHANGED <<sessions, cookie, nextToken, authEvent>>
    /\ UNCHANGED notGateVars

\* router.refresh(): the current route is fetched again
SignOutRefresh ==
    /\ signOutPc = "refresh"
    /\ response' = Serve(response.route)
    /\ served' = ~served
    /\ servedAfter' = authEvent
    /\ signOutPc' = "idle"
    /\ UNCHANGED <<sessions, cookie, nextToken, authEvent, hops>>
    /\ UNCHANGED notGateVars

GateNext ==
    \/ \E u \in Users : SignIn(u)
    \/ ExpireSession
    \/ RequestDashboard
    \/ RequestHome
    \/ FollowRedirect
    \/ SignOutStart
    \/ SignOutComplete
    \/ SignOutPush
    \/ SignOutRefresh


(***************************************************************************)
(* Strings: process.env values and the checks the schema library applies   *)
(***************************************************************************)
\* process.env.X is a string or undefined
Unset == [set |-> FALSE, val |-> ""]
Str(s) == [set |-> TRUE, val |-> s]

Char(s, i) == SubSeq(s, i, i)

Letters ==
    {"a", "b", "c", "d", "e", "f", "g", "h", "i", "j", "k", "l", "m", "n", "o",
     "p", "q", "r", "s", "t", "u", "v", "w", "x", "y", "z",
     "A", "B", "C", "D", "E", "F", "G", "H", "I", "J", "K", "L", "M", "N", "O",
     "P", "Q", "R", "S", "T", "U", "V", "W", "X", "Y", "Z"}
Digits == {"0", "1", "2", "3", "4", "5", "6", "7", "8", "9"}
SchemeChars == Letters \cup Digits \cup {"+", "-", "."}

\* schemes whose URL needs a host
SpecialSchemes == {"http", "https", "ws", "wss", "ftp"}

\* position of the first ":" of s, 0 when there is none
ColonAt(s) ==
    IF \E i \in 1..Len(s) : Char(s, i) = ":"
    THEN CHOOSE i \in 1..Len(s) :
            /\ Char(s, i) = ":"
            /\ \A j \in 1..(i - 1) : Char(s, j) # ":"
    ELSE 0

RECURSIVE StripSlashes(_)
StripSlashes(s) ==
    IF Len(s) > 0 /\ Char(s, 1) \in {"/", "\\"} THEN StripSlashes(Tail(s)) ELSE s

\* new URL(s) does not throw: a scheme, and a host when the scheme needs one
CanParseURL(s) ==
    LET c == ColonAt(s)
    IN  /\ c >= 2
        /\ Char(s, 1) \in Letters
        /\ \A i \in 2..(c - 1) : Char(s, i) \in SchemeChars
        /\ SubSeq(s, 1, c - 1) \in SpecialSchemes =>
              LET rest == StripSlashes(SubSeq(s, c + 1, Len(s)))
              IN  /\ Len(rest) > 0
                  /\ Char(rest, 1) \notin {"?", "#", ":", "@"}

\* z.string().url()
ZodUrl(v) == v.set /\ CanParseURL(v.val)

\* BETTER_AUTH_SECRET: z.string().min(32)
SecretMinLength == 32

\* z.string().min(n)
ZodMin(v, n) == v.set /\ Len(v.val) >= n

NodeEnvValues == {"development", "production", "test"}

\* z.enum([...]).default("development")
ZodNodeEnv(v) ==
    IF ~v.set THEN [ok |-> TRUE, value |-> "development"]
    ELSE IF v.val \in NodeEnvValues THEN [ok |-> TRUE, value |-> v.val]
    ELSE [ok |-> FALSE, value |-> ""]

(***************************************************************************)
(* The env module                                                          *)
(***************************************************************************)
NoEnv == [defined |-> FALSE]

\* an env schema that leaves BETTER_AUTH_URL unchecked
EnvSchemaOkNoAuthUrl(raw) ==
    /\ ZodUrl(raw.DATABASE_URL)
    /\ ZodUrl(raw.NEXT_PUBLIC_APP_URL)
    /\ ZodMin(raw.BETTER_AUTH_SECRET, SecretMinLength)
    /\ ZodNodeEnv(raw.NODE_ENV).ok

\* envSchema: every field of the object passes its check
EnvSchemaOk(raw) ==
    /\ ZodUrl(raw.DATABASE_URL)
    /\ ZodUrl(raw.NEXT_PUBLIC_APP_URL)
    /\ ZodMin(raw.BETTER_AUTH_SECRET, SecretMinLength)
    /\ ZodUrl(raw.BETTER_AUTH_URL)
    /\ ZodNodeEnv(raw.NODE_ENV).ok

\* envSchema.parse(raw): the parsed object, or a throw
EnvSchemaParse(raw) ==
    IF EnvSchemaOk(raw)
    THEN [threw |-> FALSE,
          value |-> [DATABASE_URL |-> raw.DATABASE_URL.val,
                     NEXT_PUBLIC_APP_URL |-> raw.NEXT_PUBLIC_APP_URL.val,
                     BETTER_AUTH_SECRET |-> raw.BETTER_AUTH_SECRET.val,
                     BETTER_AUTH_URL |-> raw.BETTER_AUTH_URL.val,
                     NODE_ENV |-> ZodNodeEnv(raw.NODE_ENV).value]]
    ELSE [threw |-> TRUE, value |-> NoEnv]

\* the object literal handed to envSchema.parse: the five variables it names
EnvInput ==
    [DATABASE_URL |-> procEnv.DATABASE_URL,
     NEXT_PUBLIC_APP_URL |-> procEnv.NEXT_PUBLIC_APP_URL,
     BETTER_AUTH_SECRET |-> procEnv.BETTER_AUTH_SECRET,
     BETTER_AUTH_URL |-> procEnv.BETTER_AUTH_URL,
     NODE_ENV |-> procEnv.NODE_ENV]

(***************************************************************************)
(* Feature flags                                                           *)
(***************************************************************************)
\* featureFlagsSchema: the declared flags and their defaults
SchemaDefaults ==
    [socialAuth |-> FALSE, emailVerificationRequired |-> TRUE,
     twoFactorAuth |-> FALSE, dashboardAnalytics |-> TRUE,
     dashboardCharts |-> TRUE, dashboardNotifications |-> FALSE,
     userProfileEditing |-> TRUE, userAvatarUpload |-> FALSE,
     userDarkMode |-> TRUE, experimentalFeatureA |-> FALSE,
     experimentalFeatureB |-> FALSE, enableCaching |-> TRUE,
     enableAnalytics |-> TRUE, maintenanceMode |-> FALSE,
     readOnlyMode |-> FALSE]

DeclaredFlags == DOMAIN SchemaDefaults

EmptyObject == [k \in {} |-> FALSE]

\* featureFlagsSchema.parse(input): absent flags take their defaults
FeatureFlagsSchemaParse(input) ==
    [f \in DeclaredFlags |-> IF f \in DOMAIN input THEN input[f] ELSE SchemaDefaults[f]]

\* process.env.X === lit
StrictEq(v, lit) == v.set /\ v.val = lit

\* overrides that read every toggle with === "true"
EnvOverridesAllStrictTrue(pe) ==
    [socialAuth |-> StrictEq(pe.NEXT_PUBLIC_FEATURE_SOCIAL_AUTH, "true"),
     twoFactorAuth |-> StrictEq(pe.NEXT_PUBLIC_FEATURE_2FA, "true"),
     maintenanceMode |-> StrictEq(pe.NEXT_PUBLIC_MAINTENANCE_MODE, "true"),
     enableAnalytics |-> StrictEq(pe.NEXT_PUBLIC_ENABLE_ANALYTICS, "true")]

\* envOverrides, as evaluated when the module loads
EnvOverridesOf(pe) ==
    [socialAuth |-> StrictEq(pe.NEXT_PUBLIC_FEATURE_SOCIAL_AUTH, "true"),
     twoFactorAuth |-> StrictEq(pe.NEXT_PUBLIC_FEATURE_2FA, "true"),
     maintenanceMode |-> StrictEq(pe.NEXT_PUBLIC_MAINTENANCE_MODE, "true"),
     enableAnalytics |-> ~StrictEq(pe.NEXT_PUBLIC_ENABLE_ANALYTICS, "false")]

\* clientFeatureFlags, as evaluated when the hook's module loads in the client
\* bundle
ClientFeatureFlagsOf(pe) ==
    [socialAuth |-> StrictEq(pe.NEXT_PUBLIC_FEATURE_SOCIAL_AUTH, "true"),
     twoFactorAuth |-> StrictEq(pe.NEXT_PUBLIC_FEATURE_2FA, "true"),
     maintenanceMode |-> StrictEq(pe.NEXT_PUBLIC_MAINTENANCE_MODE, "true"),
     enableAnalytics |-> ~StrictEq(pe.NEXT_PUBLIC_ENABLE_ANALYTICS, "false"),
     userDarkMode |-> TRUE,
     dashboardAnalytics |-> TRUE,
     dashboardCharts |-> TRUE,
     userProfileEditing |-> TRUE]

\* clientFeatureFlags[flag] ?? false
ClientFlagOrFalse(flags, flag) ==
    IF flag \in DOMAIN flags THEN flags[flag] ELSE FALSE

\* {...a, ...b}
Spread(a, b) ==
    [k \in (DOMAIN a) \cup (DOMAIN b) |-> IF k \in DOMAIN b THEN b[k] ELSE a[k]]

\* a merge in which the defaults win over the overrides
GetAllFeatureFlagsDefaultsWin ==
    Spread(envOverrides, FeatureFlagsSchemaParse(EmptyObject))

\* getAllFeatureFlags(): {...defaults, ...envOverrides}
GetAllFeatureFlags ==
    Spread(FeatureFlagsSchemaParse(EmptyObject), envOverrides)

ClientToggleValues == {Unset, Str("true"), Str("false")}

ClientFlagEnvs ==
    [DATABASE_URL : {Str("postgresql://postgres:pw@localhost:5432/app")},
     NEXT_PUBLIC_APP_URL : {Str("http://localhost:3000")},
     BETTER_AUTH_SECRET : {Str("your-secret-key-here-generate-a-random-string")},
     BETTER_AUTH_URL : {Str("http://localhost:3000")},
     NODE_ENV : {Unset},
     NEXT_PUBLIC_FEATURE_SOCIAL_AUTH : ClientToggleValues,
     NEXT_PUBLIC_FEATURE_2FA : ClientToggleValues,
     NEXT_PUBLIC_MAINTENANCE_MODE : ClientToggleValues,
     NEXT_PUBLIC_ENABLE_ANALYTICS : ClientToggleValues]

(***************************************************************************)
(* Configuration actions                                                   *)
(***************************************************************************)
NoRead == [flag |-> "none", value |-> FALSE]

ConfigIdle ==
    /\ envStatus = "unloaded"
    /\ env = NoEnv
    /\ flagsLoaded = FALSE
    /\ envOverrides = EmptyObject
    /\ lastRead = NoRead
    /\ lastAll = EmptyObject
    /\ lastHook = NoRead

\* a deployment's settings as the documentation gives them
DocumentedEnv ==
    [DATABASE_URL |-> Str("postgresql://postgres:pw@localhost:5432/app"),
     NEXT_PUBLIC_APP_URL |-> Str("http://localhost:3000"),
     BETTER_AUTH_SECRET |-> Str("your-secret-key-here-generate-a-random-string"),
     BETTER_AUTH_URL |-> Str("http://localhost:3000"),
     NODE_ENV |-> Unset,
     NEXT_PUBLIC_FEATURE_SOCIAL_AUTH |-> Unset,
     NEXT_PUBLIC_FEATURE_2FA |-> Unset,
     NEXT_PUBLIC_MAINTENANCE_MODE |-> Unset,
     NEXT_PUBLIC_ENABLE_ANALYTICS |-> Unset]

\* the env module is evaluated: export const env = envSchema.parse({...})
LoadEnvModule ==
    /\ envStatus = "unloaded"
    /\ LET r == EnvSchemaParse(EnvInput)
       IN  /\ envStatus' = IF r.threw THEN "threw" ELSE "ok"
           /\ env' = r.value
    /\ UNCHANGED <<procEnv, flagsLoaded, envOverrides, lastRead, lastAll, lastHook>>
    /\ UNCHANGED notConfigVars

\* the feature-flags module is evaluated: envOverrides is computed
LoadFeatureFlags ==
    /\ envStatus # "threw"
    /\ ~flagsLoaded
    /\ flagsLoaded' = TRUE
    /\ envOverrides' = EnvOverridesOf(procEnv)
    /\ UNCHANGED <<procEnv, envStatus, env, lastRead, lastAll, lastHook>>
    /\ UNCHANGED notConfigVars

\* getFeature(flag)
GetFeature(flag) ==
    /\ flagsLoaded
    /\ lastRead' = [flag |-> flag, value |-> GetAllFeatureFlags[flag]]
    /\ UNCHANGED <<procEnv, envStatus, env, flagsLoaded, envOverrides, lastAll, lastHook>>
    /\ UNCHANGED notConfigVars

\* useFeature(flag): the state starts as clientFeatureFlags[flag] ?? false and the
\* effect sets the same value again
UseFeature(flag) ==
    /\ LET initial == ClientFlagOrFalse(ClientFeatureFlagsOf(procEnv), flag)
           afterEffect == ClientFlagOrFalse(ClientFeatureFlagsOf(procEnv), flag)
       IN  lastHook' = [flag |-> flag, value |-> afterEffect]
    /\ UNCHANGED <<procEnv, envStatus, env, flagsLoaded, envOverrides, lastRead, lastAll>>
    /\ UNCHANGED notConfigVars

\* getAllFeatures()
GetAllFeatures ==
    /\ flagsLoaded
    /\ lastAll' = GetAllFeatureFlags
    /\ UNCHANGED <<procEnv, envStatus, env, flagsLoaded, envOverrides, lastRead, lastHook>>
    /\ UNCHANGED notConfigVars

(***************************************************************************)
(* The db and auth modules                                                 *)
(***************************************************************************)
NoClient == [created |-> FALSE, connectionString |-> Unset]

NoAuth == [created |-> FALSE, secret |-> Unset, baseURL |-> Unset]

StartupIdle ==
    /\ dbClient = NoClient
    /\ authInstance = NoAuth

\* a || b on two environment values: the empty string and undefined are falsy
OrElse(a, b) == IF a.set /\ a.val # "" THEN a ELSE b

\* the db module is evaluated: postgres(process.env.DATABASE_URL!) and drizzle(client);
\* the module imports the schema only, and the client connects lazily
LoadDbModule ==
    /\ envStatus # "threw"
    /\ ~dbClient.created
    /\ dbClient' = [created |-> TRUE, connectionString |-> procEnv.DATABASE_URL]
    /\ UNCHANGED authInstance
    /\ UNCHANGED notStartupVars

\* the auth module is evaluated: it imports the db module and calls betterAuth with
\* secret and baseURL read from process.env
LoadAuthModule ==
    /\ envStatus # "threw"
    /\ ~authInstance.created
    /\ dbClient' = [created |-> TRUE, connectionString |-> procEnv.DATABASE_URL]
    /\ authInstance' =
           [created |-> TRUE, secret |-> procEnv.BETTER_AUTH_SECRET,
            baseURL |-> OrElse(procEnv.BETTER_AUTH_URL, procEnv.NEXT_PUBLIC_APP_URL)]
    /\ UNCHANGED notStartupVars

(***************************************************************************)
(* The environments explored                                               *)
(***************************************************************************)
Secret22 == "your-production-secret"
Secret31 == "0123456789abcdef0123456789abcde"
Secret32 == "0123456789abcdef0123456789abcdef"
Secret45 == "your-secret-key-here-generate-a-random-string"

StartupEnvs ==
    [DATABASE_URL : {Unset, Str("not-a-url"),
                     Str("postgresql://postgres:pw@localhost:5432/app")},
     NEXT_PUBLIC_APP_URL : {Unset, Str("http://"), Str("localhost:3000"),
                            Str("http://localhost:3000")},
     BETTER_AUTH_SECRET : {Unset, Str(Secret22), Str(Secret31), Str(Secret32),
                           Str(Secret45)},
     BETTER_AUTH_URL : {Unset, Str(""), Str("https://app.example.com")},
     NODE_ENV : {Unset, Str("development"), Str("production"), Str("test"),
                 Str("staging")},
     NEXT_PUBLIC_FEATURE_SOCIAL_AUTH : {Unset, Str("true"), Str("yes")},
     NEXT_PUBLIC_FEATURE_2FA : {Unset, Str("false"), Str("1")},
     NEXT_PUBLIC_MAINTENANCE_MODE : {Unset},
     NEXT_PUBLIC_ENABLE_ANALYTICS : {Unset}]

ToggleValues == {Unset, Str("true"), Str("false"), Str("TRUE"), Str("1")}

FlagEnvs ==
    [DATABASE_URL : {DocumentedEnv.DATABASE_URL},
     NEXT_PUBLIC_APP_URL : {DocumentedEnv.NEXT_PUBLIC_APP_URL},
     BETTER_AUTH_SECRET : {DocumentedEnv.BETTER_AUTH_SECRET},
     BETTER_AUTH_URL : {DocumentedEnv.BETTER_AUTH_URL},
     NODE_ENV : {Unset},
     NEXT_PUBLIC_FEATURE_SOCIAL_AUTH : ToggleValues,
     NEXT_PUBLIC_FEATURE_2FA : ToggleValues,
     NEXT_PUBLIC_MAINTENANCE_MODE : ToggleValues,
     NEXT_PUBLIC_ENABLE_ANALYTICS : ToggleValues]

(***************************************************************************)
(* ThemeProvider                                                           *)
(***************************************************************************)
\* RootLayout: <html lang='en' className='dark'>
ServerRenderedClasses == {"dark"}

\* useState<"light" | "dark">("dark")
InitialTheme == "dark"

\* localStorage.getItem("theme"): the stored string, or null
GetItem == storage

\* a mount effect that ignores the stored value
EffectiveThemeIgnoreSaved(savedTheme) == "dark"

\* savedTheme || "dark": null and the empty string are falsy
EffectiveTheme(savedTheme) ==
    IF ~savedTheme.set \/ savedTheme.val = "" THEN "dark" ELSE savedTheme.val

\* theme === "dark" ? "light" : "dark"
NewTheme(current) == IF current = "dark" THEN "light" ELSE "dark"

\* classList.add(a); classList.remove(b), by the branch taken
ApplyThemeClasses(classes, t) ==
    IF t = "dark"
    THEN (classes \cup {"dark"}) \ {"light"}
    ELSE (classes \cup {"light"}) \ {"dark"}

\* the value the theme state holds once the queued setTheme calls are applied
ThemeState == IF pending = <<>> THEN theme ELSE pending[Len(pending)]

Snapshot == [theme |-> ThemeState, storage |-> storage, classes |-> classList]

NoSnapshot == [theme |-> "none", storage |-> Unset, classes |-> {}]

LastTwo(h) == IF Len(h) > 2 THEN SubSeq(h, Len(h) - 1, Len(h)) ELSE h

\* createContext<ThemeContextValue | undefined>(undefined)
NoContext == [defined |-> FALSE]

\* useContext(ThemeContext): the value of the nearest provider, or the default
ContextValue(inside) ==
    IF inside
    THEN [defined |-> TRUE, theme |-> theme, toggleTheme |-> "toggleTheme"]
    ELSE NoContext

NoUse == [called |-> FALSE]

\* a hook that returns whatever the context holds
UseThemeUnguarded(context) == [threw |-> FALSE, message |-> "", value |-> context]

\* useTheme(): throw when the context is undefined, return it otherwise
UseThemeHook(context) ==
    IF ~context.defined
    THEN [threw |-> TRUE, message |-> "useTheme must be used within ThemeProvider",
          value |-> NoContext]
    ELSE [threw |-> FALSE, message |-> "", value |-> context]

ThemeIdle ==
    /\ mounted = FALSE
    /\ effectRan = FALSE
    /\ theme = InitialTheme
    /\ pending = <<>>
    /\ classList = {}
    /\ hist = <<>>
    /\ beforeUnmount = NoSnapshot
    /\ toggled = FALSE
    /\ storage0 = storage
    /\ lastUse = NoUse

\* contents the storage key "theme" may hold when the page loads
StorageSamples == {Unset, Str("light"), Str("dark"), Str(""), Str("blue")}

\* the page loads: the document is created and ThemeProvider renders
Mount ==
    /\ ~mounted
    /\ mounted' = TRUE
    /\ effectRan' = FALSE
    /\ theme' = InitialTheme
    /\ pending' = <<>>
    /\ classList' = ServerRenderedClasses
    /\ hist' = <<>>
    /\ UNCHANGED <<storage, beforeUnmount, toggled, storage0, lastUse>>
    /\ UNCHANGED notThemeVars

\* useEffect(() => {...}, []): load the saved theme, set state, sync the DOM
MountEffect ==
    /\ mounted
    /\ ~effectRan
    /\ LET savedTheme == GetItem
           effectiveTheme == EffectiveTheme(savedTheme)
       IN  /\ pending' = Append(pending, effectiveTheme)
           /\ classList' = ApplyThemeClasses(classList, effectiveTheme)
    /\ effectRan' = TRUE
    /\ UNCHANGED <<mounted, theme, storage, hist, beforeUnmount, toggled, storage0, lastUse>>
    /\ UNCHANGED notThemeVars

\* toggleTheme(): reads the theme of the render that created it
ToggleTheme ==
    /\ mounted
    /\ effectRan
    /\ Len(pending) < MaxPending
    /\ LET newTheme == NewTheme(theme)
       IN  /\ pending' = Append(pending, newTheme)
           /\ storage' = Str(newTheme)
           /\ classList' = ApplyThemeClasses(classList, newTheme)
    /\ hist' = LastTwo(Append(hist, Snapshot))
    /\ toggled' = TRUE
    /\ UNCHANGED <<mounted, effectRan, theme, beforeUnmount, storage0, lastUse>>
    /\ UNCHANGED notThemeVars

\* React re-renders the provider: the queued setTheme values are applied
Render ==
    /\ mounted
    /\ pending # <<>>
    /\ theme' = pending[Len(pending)]
    /\ pending' = <<>>
    /\ UNCHANGED <<mounted, effectRan, storage, classList, hist, beforeUnmount,
                   toggled, storage0, lastUse>>
    /\ UNCHANGED notThemeVars

\* the page is left or reloaded: state and document go, the storage stays
Unmount ==
    /\ mounted
    /\ mounted' = FALSE
    /\ beforeUnmount' = IF effectRan THEN Snapshot ELSE NoSnapshot
    /\ effectRan' = FALSE
    /\ theme' = InitialTheme
    /\ pending' = <<>>
    /\ classList' = {}
    /\ hist' = <<>>
    /\ UNCHANGED <<storage, toggled, storage0, lastUse>>
    /\ UNCHANGED notThemeVars

\* a component calls useTheme(); inside tells whether it renders under ThemeProvider
UseTheme(inside) ==
    /\ inside => mounted
    /\ lastUse' = [called |-> TRUE, inside |-> inside, rendered |-> theme,
                    result |-> UseThemeHook(ContextValue(inside))]
    /\ UNCHANGED <<storage, mounted, effectRan, theme, pending, classList, hist,
                   beforeUnmount, toggled, storage0>>
    /\ UNCHANGED notThemeVars

ThemeNext ==
    \/ Mount
    \/ MountEffect
    \/ ToggleTheme
    \/ Render
    \/ Unmount
    \/ \E inside \in BOOLEAN : UseTheme(inside)


(***************************************************************************)
(* The structured logger                                                   *)
(***************************************************************************)
\* A logged object is the set of its leaves: [path |-> <<key, ...>>, val |-> string]
Field(path, val) == [path |-> path, val |-> val]

\* redact.paths
RedactPaths ==
    {<<"req", "headers", "authorization">>, <<"req", "headers", "cookie">>,
     <<"password">>, <<"token">>, <<"apiKey">>, <<"secret">>}

HasPrefix(path, pre) == Len(pre) <= Len(path) /\ SubSeq(path, 1, Len(pre)) = pre

\* redact with remove: true: the listed paths are removed from the merged object
Redact(obj) == {e \in obj : \A p \in RedactPaths : ~HasPrefix(e.path, p)}

\* pino.stdSerializers.req keeps these keys of a logged req
ReqSerializerKeys ==
    {"id", "method", "url", "query", "params", "headers", "remoteAddress",
     "remotePort"}

\* serializers: applied to the top-level key req before redaction
Serialize(obj) ==
    {e \in obj : (e.path[1] = "req" /\ Len(e.path) >= 2) => e.path[2] \in ReqSerializerKeys}

\* {...base, ...context}: a top-level key of context replaces the same key of base
SpreadOver(base, context) ==
    {e \in base : \A c \in context : c.path[1] # e.path[1]} \cup context

\* {key: obj}
Nest(key, obj) == {Field(<<key>> \o e.path, e.val) : e \in obj}

\* pino level values
LevelValue ==
    [trace |-> 10, debug |-> 20, info |-> 30, warn |-> 40, error |-> 50, fatal |-> 60]

\* process.env.NODE_ENV === "development"
IsDevelopment == StrictEq(logEnv.NODE_ENV, "development")

\* level: process.env.LOG_LEVEL || (isDevelopment ? "debug" : "info")
LoggerLevel ==
    IF logEnv.LOG_LEVEL.set /\ logEnv.LOG_LEVEL.val # ""
    THEN logEnv.LOG_LEVEL.val
    ELSE IF IsDevelopment THEN "debug" ELSE "info"

NoLine == [helper |-> "none", supplied |-> {}, written |-> FALSE, line |-> {}]

\* logger.<level>(obj, msg): a line is written when the level is enabled
LoggerWrite(helper, level, obj, supplied) ==
    logLine' =
        IF LevelValue[level] >= LevelValue[LoggerLevel]
        THEN [helper |-> helper, supplied |-> supplied, written |-> TRUE,
              line |-> Redact(Serialize(obj))]
        ELSE [helper |-> helper, supplied |-> supplied, written |-> FALSE, line |-> {}]

\* a direct call of the exported logger
LoggerInfo(obj) ==
    /\ LoggerWrite("logger.info", "info", obj, obj)
    /\ UNCHANGED logEnv
    /\ UNCHANGED notLoggerVars

\* logger.info({method, url, ...context}, "HTTP Request")
LogRequest(context) ==
    /\ LoggerWrite("logRequest", "info",
                   SpreadOver({Field(<<"method">>, "GET"), Field(<<"url">>, "/api/users")},
                              context),
                   context)
    /\ UNCHANGED logEnv
    /\ UNCHANGED notLoggerVars

\* logger.info({method, url, statusCode, duration, ...context}, "HTTP Response")
LogResponse(context) ==
    /\ LoggerWrite("logResponse", "info",
                   SpreadOver({Field(<<"method">>, "GET"), Field(<<"url">>, "/api/users"),
                               Field(<<"statusCode">>, "200"),
                               Field(<<"duration">>, "12")},
                              context),
                   context)
    /\ UNCHANGED logEnv
    /\ UNCHANGED notLoggerVars

\* logger.debug({query, duration, ...context}, "Database Query")
LogQuery(context) ==
    /\ LoggerWrite("logQuery", "debug",
                   SpreadOver({Field(<<"query">>, "select 1"), Field(<<"duration">>, "3")},
                              context),
                   context)
    /\ UNCHANGED logEnv
    /\ UNCHANGED notLoggerVars

\* logger.info({event, userId, ...context}, "Auth Event")
LogAuth(context) ==
    /\ LoggerWrite("logAuth", "info",
                   SpreadOver({Field(<<"event">>, "signin"), Field(<<"userId">>, "user-1")},
                              context),
                   context)
    /\ UNCHANGED logEnv
    /\ UNCHANGED notLoggerVars

\* logger.error({err: error, ...context}, error.message)
LogError(context) ==
    /\ LoggerWrite("logError", "error",
                   SpreadOver({Field(<<"err", "type">>, "Error"),
                               Field(<<"err", "message">>, "boom"),
                               Field(<<"err", "stack">>, "Error: boom")},
                              context),
                   context)
    /\ UNCHANGED logEnv
    /\ UNCHANGED notLoggerVars

\* logger.info({metric, value, unit, ...context}, "Performance Metric")
LogMetric(context) ==
    /\ LoggerWrite("logMetric", "info",
                   SpreadOver({Field(<<"metric">>, "ttfb"), Field(<<"value">>, "120"),
                               Field(<<"unit">>, "ms")},
                              context),
                   context)
    /\ UNCHANGED logEnv
    /\ UNCHANGED notLoggerVars

\* logger.info({event, properties}, "Business Event"): properties stay nested
LogEvent(properties) ==
    /\ LoggerWrite("logEvent", "info",
                   {Field(<<"event">>, "checkout")} \cup Nest("properties", properties),
                   properties)
    /\ UNCHANGED logEnv
    /\ UNCHANGED notLoggerVars

\* fields a caller may put in a context or properties object
SuppliedFields ==
    {Field(<<"password">>, "hunter2"), Field(<<"token">>, "tok_live_1"),
     Field(<<"apiKey">>, "key_42"), Field(<<"secret">>, "s3cr3t"),
     Field(<<"req", "headers", "authorization">>, "Bearer abc"),
     Field(<<"req", "headers", "cookie">>, "sid=xyz"),
     Field(<<"userId">>, "user-7")}

\* context and properties objects of at most MaxFields fields
ContextSamples == {c \in SUBSET SuppliedFields : Cardinality(c) <= MaxFields}

LoggerIdle == logLine = NoLine

DocumentedLogEnv == [LOG_LEVEL |-> Unset, NODE_ENV |-> Str("development")]

LogEnvSamples ==
    [LOG_LEVEL : {Unset, Str(""), Str("debug"), Str("info"), Str("error")},
     NODE_ENV : {Unset, Str("development"), Str("production")}]

LoggerNext ==
    \/ \E obj \in ContextSamples : LoggerInfo(obj)
    \/ \E context \in ContextSamples : LogRequest(context)
    \/ \E context \in ContextSamples : LogResponse(context)
    \/ \E context \in ContextSamples : LogQuery(context)
    \/ \E context \in ContextSamples : LogAuth(context)
    \/ \E context \in ContextSamples : LogError(context)
    \/ \E context \in ContextSamples : LogMetric(context)
    \/ \E properties \in ContextSamples : LogEvent(properties)

(***************************************************************************)
(* The middleware                                                          *)
(***************************************************************************)
\* response.headers.set(key, value) on a set of <<name, value>> pairs
SetHeader(hs, k, v) == {h \in hs : h[1] # k} \cup {<<k, v>>}

HeaderNames(hs) == {h[1] : h \in hs}

ProductionCsp ==
    "default-src 'self'; script-src 'self' 'unsafe-eval' 'unsafe-inline'; style-src 'self' 'unsafe-inline'; img-src 'self' data: https:; font-src 'self' data:; connect-src 'self' https:;"

DevelopmentCsp ==
    "default-src 'self' 'unsafe-eval' 'unsafe-inline'; img-src 'self' data: https:; font-src 'self' data:;"

\* const securityHeaders = {...}
SecurityHeaders ==
    {<<"X-XSS-Protection", "1; mode=block">>,
     <<"X-Content-Type-Options", "nosniff">>,
     <<"Referrer-Policy", "strict-origin-when-cross-origin">>,
     <<"Permissions-Policy", "camera=(), microphone=(), geolocation=(), interest-cohort=()">>,
     <<"X-Frame-Options", "DENY">>,
     <<"Content-Security-Policy",
       IF StrictEq(mwEnv.NODE_ENV, "production") THEN ProductionCsp ELSE DevelopmentCsp>>}

\* Object.entries(securityHeaders).forEach(([key, value]) => response.headers.set(key, value))
RECURSIVE ApplyHeaders(_, _)
ApplyHeaders(hs, entries) ==
    IF entries = {} THEN hs
    ELSE LET e == CHOOSE x \in entries : TRUE
         IN  ApplyHeaders(SetHeader(hs, e[1], e[2]), entries \ {e})

\* pathname.startsWith("/api")
StartsWithApi(pathname) == Len(pathname) >= Len("/api") /\ SubSeq(pathname, 1, Len("/api")) = "/api"

\* s.split(","): the pieces between the commas, in order
RECURSIVE SplitComma(_)
SplitComma(s) ==
    IF \A i \in 1..Len(s) : Char(s, i) # ","
    THEN <<s>>
    ELSE LET i == CHOOSE j \in 1..Len(s) :
                      Char(s, j) = "," /\ \A k \in 1..(j - 1) : Char(s, k) # ","
         IN  <<SubSeq(s, 1, i - 1)>> \o SplitComma(SubSeq(s, i + 1, Len(s)))

\* process.env.ALLOWED_ORIGINS?.split(",") || [process.env.NEXT_PUBLIC_APP_URL || "http://localhost:3000"]
AllowedOrigins ==
    IF mwEnv.ALLOWED_ORIGINS.set
    THEN SplitComma(mwEnv.ALLOWED_ORIGINS.val)
    ELSE IF mwEnv.NEXT_PUBLIC_APP_URL.set /\ mwEnv.NEXT_PUBLIC_APP_URL.val # ""
         THEN <<mwEnv.NEXT_PUBLIC_APP_URL.val>>
         ELSE <<"http://localhost:3000">>

\* a check that lets every origin through
OriginAllowedAny(origin, allowedOrigins) == origin.set /\ origin.val # ""

\* origin && allowedOrigins.includes(origin)
OriginAllowed(origin, allowedOrigins) ==
    /\ origin.set
    /\ origin.val # ""
    /\ \E i \in 1..Len(allowedOrigins) : allowedOrigins[i] = origin.val

\* the four Access-Control-* headers set for an allowed origin
CorsHeaders(hs, origin) ==
    SetHeader(SetHeader(SetHeader(SetHeader(hs,
        "Access-Control-Allow-Origin", origin),
        "Access-Control-Allow-Methods", "GET, POST, PUT, DELETE, OPTIONS"),
        "Access-Control-Allow-Headers", "Content-Type, Authorization"),
        "Access-Control-Max-Age", "86400")

\* a preflight reply that starts from empty headers
PreflightBare(hs) == [kind |-> "preflight", status |-> 200, headers |-> {}]

\* new NextResponse(null, {status: 200, headers: response.headers})
Preflight(hs) == [kind |-> "preflight", status |-> 200, headers |-> hs]

\* middleware(request)
MiddlewareResponse(request) ==
    LET secured == ApplyHeaders({}, SecurityHeaders)
        api == StartsWithApi(request.pathname)
        withCors ==
            IF api /\ OriginAllowed(request.origin, AllowedOrigins)
            THEN CorsHeaders(secured, request.origin.val)
            ELSE secured
    IN  IF api /\ request.method = "OPTIONS"
        THEN Preflight(withCors)
        ELSE [kind |-> "next", status |-> 0, headers |-> withCors]

NoRequest == [pathname |-> "", method |-> "none", origin |-> Unset]

NoMwResponse == [kind |-> "none", status |-> 0, headers |-> {}]

MiddlewareIdle == mwRequest = NoRequest /\ mwResponse = NoMwResponse

\* a request reaches the middleware
Middleware(request) ==
    /\ mwRequest' = request
    /\ mwResponse' = MiddlewareResponse(request)
    /\ UNCHANGED mwEnv
    /\ UNCHANGED notMiddlewareVars

DocumentedMwEnv ==
    [NODE_ENV |-> Str("development"), ALLOWED_ORIGINS |-> Unset,
     NEXT_PUBLIC_APP_URL |-> Str("http://localhost:3000")]

MwEnvSamples ==
    [NODE_ENV : {Unset, Str("development"), Str("production"), Str("test")},
     ALLOWED_ORIGINS :
         {Unset, Str(""), Str("https://app.example.com"),
          Str("https://app.example.com,https://admin.example.com"),
          Str("https://app.example.com, https://admin.example.com")},
     NEXT_PUBLIC_APP_URL :
         {Unset, Str(""), Str("http://localhost:3000"), Str("https://app.example.com")}]

RequestSamples ==
    [pathname : {"/", "/dashboard", "/api", "/api/users", "/apiary", "/ap"},
     method : {"GET", "POST", "OPTIONS"},
     origin : {Unset, Str(""), Str("http://localhost:3000"),
               Str("https://app.example.com"), Str("https://admin.example.com"),
               Str("https://evil.example")}]

MiddlewareNext == \E request \in RequestSamples : Middleware(request)

(***************************************************************************)
(* The auth tables                                                         *)
(***************************************************************************)
UserIds == 1..MaxUsers
RowIds == 1..MaxRows
Emails == {"ada@example.com", "bob@example.com"}
SessionTokens == {"tok-a", "tok-b"}

\* id: text("id").primaryKey()
PrimaryKeyFree(rows, id) == \A r \in rows : r.id # id

\* userId: text("user_id").notNull().references(() => users.id, ...)
ReferencesUser(userId) == \E u \in dbUsers : u.id = userId

\* a deletion that leaves the referencing rows in place
OnDeleteNoAction(rows, userId) == rows

\* {onDelete: "cascade"}: the rows referencing the deleted user go with it
OnDeleteCascade(rows, userId) == {r \in rows : r.userId # userId}

NoDelete == [happened |-> FALSE, userId |-> 0, cascaded |-> FALSE, kept |-> FALSE]

DbIdle ==
    /\ dbUsers = {}
    /\ dbSessions = {}
    /\ dbAccounts = {}
    /\ lastDelete = NoDelete

\* insert into users: id is the primary key, email is unique
InsertUser(id, email) ==
    /\ PrimaryKeyFree(dbUsers, id)
    /\ \A u \in dbUsers : u.email # email
    /\ dbUsers' = dbUsers \cup {[id |-> id, email |-> email]}
    /\ UNCHANGED <<dbSessions, dbAccounts, lastDelete>>
    /\ UNCHANGED notDbVars

\* insert into sessions: id is the primary key, token is unique, userId references users
InsertSession(id, token, userId) ==
    /\ PrimaryKeyFree(dbSessions, id)
    /\ \A r \in dbSessions : r.token # token
    /\ ReferencesUser(userId)
    /\ dbSessions' = dbSessions \cup {[id |-> id, token |-> token, userId |-> userId]}
    /\ UNCHANGED <<dbUsers, dbAccounts, lastDelete>>
    /\ UNCHANGED notDbVars

\* insert into accounts: id is the primary key, userId references users
InsertAccount(id, userId) ==
    /\ PrimaryKeyFree(dbAccounts, id)
    /\ ReferencesUser(userId)
    /\ dbAccounts' = dbAccounts \cup {[id |-> id, userId |-> userId]}
    /\ UNCHANGED <<dbUsers, dbSessions, lastDelete>>
    /\ UNCHANGED notDbVars

\* delete from users where id = userId
DeleteUser(userId) ==
    /\ ReferencesUser(userId)
    /\ dbUsers' = {u \in dbUsers : u.id # userId}
    /\ dbSessions' = OnDeleteCascade(dbSessions, userId)
    /\ dbAccounts' = OnDeleteCascade(dbAccounts, userId)
    /\ lastDelete' =
           [happened |-> TRUE, userId |-> userId,
            cascaded |-> /\ \E r \in dbSessions : r.userId = userId
                         /\ \E r \in dbAccounts : r.userId = userId,
            kept |-> /\ \E r \in dbSessions : r.userId # userId
                     /\ \E r \in dbAccounts : r.userId # userId]
    /\ UNCHANGED notDbVars

DbNext ==
    \/ \E id \in UserIds, email \in Emails : InsertUser(id, email)
    \/ \E id \in RowIds, token \in SessionTokens, userId \in UserIds :
           InsertSession(id, token, userId)
    \/ \E id \in RowIds, userId \in UserIds : InsertAccount(id, userId)
    \/ \E userId \in UserIds : DeleteUser(userId)

(***************************************************************************)
(* Server action patterns                                                  *)
(***************************************************************************)
\* what a call hands back to the calling component
Returned(result) == [escaped |-> FALSE, result |-> result]

\* a handler that rethrows what it caught
CatchRethrow(thrown) == [escaped |-> TRUE, result |-> [success |-> FALSE, error |-> ""]]

\* catch (error) { return {success: false, error: error instanceof Error ? error.message : "Unknown error"} }
CatchToFailure(thrown) ==
    Returned([success |-> FALSE,
              error |-> IF thrown.isError THEN thrown.message ELSE "Unknown error"])

\* simulateDbError: the operation in the try block throws, the catch converts
SimulateDbErrorOutcome(thrown) == CatchToFailure(thrown)

\* !data.email || !data.name: undefined and the empty string are falsy
MissingRequired(data) ==
    \/ ~data.email.set \/ data.email.val = ""
    \/ ~data.name.set \/ data.name.val = ""

\* createUser (274-288): validate, then {id: "generated-id", ...data, createdAt}
CreateUserOutcome(data) ==
    IF MissingRequired(data)
    THEN [performed |-> FALSE,
          outcome |-> Returned([success |-> FALSE, error |-> "Missing required fields"])]
    ELSE [performed |-> TRUE,
          outcome |-> Returned([success |-> TRUE,
                                user |-> [id |-> "generated-id", name |-> data.name.val,
                                          email |-> data.email.val]])]

NoCall ==
    [fn |-> "none", data |-> [name |-> Unset, email |-> Unset],
     thrown |-> [isError |-> FALSE, message |-> ""], performed |-> FALSE,
     outcome |-> Returned([success |-> FALSE, error |-> ""])]

ActionIdle == actionCall = NoCall

\* the component calls simulateDbError(); thrown is what its operation throws
SimulateDbError(thrown) ==
    /\ actionCall' = [NoCall EXCEPT !.fn = "simulateDbError", !.thrown = thrown,
                                     !.performed = TRUE,
                                     !.outcome = SimulateDbErrorOutcome(thrown)]
    /\ UNCHANGED notActionVars

\* the component calls createUser(data)
CreateUser(data) ==
    /\ LET r == CreateUserOutcome(data)
       IN  actionCall' = [NoCall EXCEPT !.fn = "createUser", !.data = data,
                                        !.performed = r.performed,
                                        !.outcome = r.outcome]
    /\ UNCHANGED notActionVars

\* values an operation throws: Error objects and values that are not Errors
ThrownSamples ==
    [isError : BOOLEAN,
     message : {"Database connection failed", "duplicate key value", "timeout", ""}]

UserDataSamples ==
    [name : {Unset, Str(""), Str(" "), Str("0"), Str("John"), Str("John Doe"),
             Str("Ada"), Str("Bob"), Str("Grace"), Str("Linus")},
     email : {Unset, Str(""), Str(" "), Str("0"), Str("john@example.com"),
              Str("ada@example.com"), Str("bob@example.com"), Str("not-an-email"),
              Str("grace@example.com"), Str("linus@example.com")}]

ActionNext ==
    \/ \E thrown \in ThrownSamples : SimulateDbError(thrown)
    \/ \E data \in UserDataSamples : CreateUser(data)

(***************************************************************************)
(* ResetPasswordForm                                                       *)
(***************************************************************************)
\* useState<string | null>(null)
NullError == Unset

\* !token: null and the empty string are falsy
TokenMissing(token) == ~token.set \/ token.val = ""

\* a comparison that accepts every pair
PasswordsDifferNever(password, confirmPassword) == FALSE

\* password !== confirmPassword
PasswordsDiffer(password, confirmPassword) == password # confirmPassword

\* the checks of onSubmit before the request: the error to set, or the request to issue
SubmitChecks(token, password, confirmPassword) ==
    IF TokenMissing(token)
    THEN [request |-> FALSE, error |-> Str("Invalid or missing reset token")]
    ELSE IF PasswordsDiffer(password, confirmPassword)
         THEN [request |-> FALSE, error |-> Str("Passwords do not match")]
         ELSE [request |-> TRUE, error |-> NullError]

\* a handler that shows the same text for everything thrown
CatchResetGeneric(thrown) == Str("Failed to reset password")

\* setError(err instanceof Error ? err.message : "Failed to reset password")
CatchReset(thrown) ==
    Str(IF thrown.isError THEN thrown.message ELSE "Failed to reset password")

\* a submit button and inputs that are never disabled
SubmitAlwaysEnabled(isLoading) == TRUE

\* disabled={isLoading} on the inputs and on the submit button of both forms
SubmitEnabled(isLoading) == ~isLoading

\* a handler without its finally block
FinallySkipped(isLoading) == isLoading

\* finally { setIsLoading(false) }
Finally(isLoading) == FALSE

\* if (!token) return <div>...</div>: the form is rendered only with a token
ResetFormShown == ~TokenMissing(rpToken) /\ rpNav = "none"

NoSubmit ==
    [password |-> "", confirmPassword |-> "", requestsBefore |-> 0, ended |-> "none",
     thrown |-> [isError |-> FALSE, message |-> ""]]

ResetIdle ==
    /\ rpLoading = FALSE
    /\ rpError = NullError
    /\ rpPc = "idle"
    /\ rpRequests = <<>>
    /\ rpNav = "none"
    /\ rpLast = NoSubmit

\* the form is submitted: onSubmit runs up to its await or to an early return
SubmitReset(password, confirmPassword) ==
    /\ ResetFormShown
    /\ SubmitEnabled(rpLoading)
    /\ Len(rpRequests) < MaxSubmits
    /\ LET r == SubmitChecks(rpToken, password, confirmPassword)
       IN  /\ rpError' = r.error
           /\ rpLoading' = r.request
           /\ rpPc' = IF r.request THEN "awaiting" ELSE "idle"
           /\ rpRequests' =
                  IF r.request
                  THEN Append(rpRequests, [newPassword |-> password, token |-> rpToken.val])
                  ELSE rpRequests
           /\ rpLast' = [NoSubmit EXCEPT !.password = password,
                                         !.confirmPassword = confirmPassword,
                                         !.requestsBefore = Len(rpRequests),
                                         !.ended = IF r.request THEN "awaiting"
                                                   ELSE "rejected by checks"]
    /\ UNCHANGED <<rpToken, rpNav>>
    /\ UNCHANGED notResetVars

\* await authClient.resetPassword(...) returns: router.push, then finally
ResetResolved ==
    /\ rpPc = "awaiting"
    /\ rpNav' = "/auth/signin?reset=success"
    /\ rpLoading' = Finally(rpLoading)
    /\ rpPc' = "idle"
    /\ rpLast' = [rpLast EXCEPT !.ended = "resolved"]
    /\ UNCHANGED <<rpToken, rpError, rpRequests>>
    /\ UNCHANGED notResetVars

\* await authClient.resetPassword(...) throws: catch, then finally
ResetRejected(thrown) ==
    /\ rpPc = "awaiting"
    /\ rpError' = CatchReset(thrown)
    /\ rpLoading' = Finally(rpLoading)
    /\ rpPc' = "idle"
    /\ rpLast' = [rpLast EXCEPT !.ended = "threw", !.thrown = thrown]
    /\ UNCHANGED <<rpToken, rpNav, rpRequests>>
    /\ UNCHANGED notResetVars

TokenSamples == {Unset, Str(""), Str("tok-123")}

\* the fields are required with minLength 8
PasswordSamples == {"hunter2hunter2", "correct horse", "Tr0ub4dor&3"}

\* what the auth client throws: Error objects and values that are not Errors
AuthErrorSamples ==
    [isError : BOOLEAN, message : {"Invalid token", "Token expired"}]

ResetNext ==
    \/ \E password, confirmPassword \in PasswordSamples :
           SubmitReset(password, confirmPassword)
    \/ ResetResolved
    \/ \E thrown \in AuthErrorSamples : ResetRejected(thrown)

(***************************************************************************)
(* ForgotPasswordForm                                                      *)
(***************************************************************************)
\* a handler that also shows the confirmation after a failure
CatchForgotAndConfirm(thrown) ==
    [error |-> Str(IF thrown.isError THEN thrown.message ELSE "Failed to send reset email"),
     emailSent |-> TRUE]

\* catch: setError(err instanceof Error ? err.message : "Failed to send reset email")
CatchForgot(thrown) ==
    [error |-> Str(IF thrown.isError THEN thrown.message ELSE "Failed to send reset email"),
     emailSent |-> fpEmailSent]

\* if (emailSent) return <confirmation>; else the form, disabled while loading
ForgotScreen ==
    IF fpEmailSent THEN "sent"
    ELSE IF fpLoading THEN "submitting"
    ELSE "form"

\* the address the confirmation shows: {email}
ConfirmationEmail == fpEmail

NoForgotEvent ==
    [kind |-> "none", email |-> "", thrown |-> [isError |-> FALSE, message |-> ""]]

ForgotIdle ==
    /\ fpLoading = FALSE
    /\ fpError = NullError
    /\ fpEmailSent = FALSE
    /\ fpEmail = ""
    /\ fpPc = "idle"
    /\ fpRequests = <<>>
    /\ fpLast = NoForgotEvent

\* the form is submitted: onSubmit runs up to its await
SubmitForgot(emailValue) ==
    /\ ForgotScreen # "sent"
    /\ SubmitEnabled(fpLoading)
    /\ Len(fpRequests) < MaxSubmits
    /\ fpLoading' = TRUE
    /\ fpError' = NullError
    /\ fpEmail' = emailValue
    /\ fpRequests' =
           Append(fpRequests, [email |-> emailValue, redirectTo |-> "/auth/reset-password"])
    /\ fpPc' = "awaiting"
    /\ fpLast' = [NoForgotEvent EXCEPT !.kind = "submitted", !.email = emailValue]
    /\ UNCHANGED fpEmailSent
    /\ UNCHANGED notForgotVars

\* await authClient.forgetPassword(...) returns: setEmailSent(true), then finally
ForgotResolved ==
    /\ fpPc = "awaiting"
    /\ fpEmailSent' = TRUE
    /\ fpLoading' = Finally(fpLoading)
    /\ fpPc' = "idle"
    /\ fpLast' = [fpLast EXCEPT !.kind = "resolved"]
    /\ UNCHANGED <<fpError, fpEmail, fpRequests>>
    /\ UNCHANGED notForgotVars

\* await authClient.forgetPassword(...) throws: catch, then finally
ForgotRejected(thrown) ==
    /\ fpPc = "awaiting"
    /\ LET c == CatchForgot(thrown)
       IN  /\ fpError' = c.error
           /\ fpEmailSent' = c.emailSent
    /\ fpLoading' = Finally(fpLoading)
    /\ fpPc' = "idle"
    /\ fpLast' = [fpLast EXCEPT !.kind = "threw", !.thrown = thrown]
    /\ UNCHANGED <<fpEmail, fpRequests>>
    /\ UNCHANGED notForgotVars

\* "Try Different Email": onClick={() => setEmailSent(false)}
TryDifferentEmail ==
    /\ ForgotScreen = "sent"
    /\ fpEmailSent' = FALSE
    /\ fpLast' = [fpLast EXCEPT !.kind = "try different email"]
    /\ UNCHANGED <<fpLoading, fpError, fpEmail, fpPc, fpRequests>>
    /\ UNCHANGED notForgotVars

\* the field is required and of type email
EmailSamples == {"test@example.com", "other@example.com", "first.last@example.org"}

ForgotNext ==
    \/ \E emailValue \in EmailSamples : SubmitForgot(emailValue)
    \/ ForgotResolved
    \/ \E thrown \in AuthErrorSamples : ForgotRejected(thrown)
    \/ TryDifferentEmail

(***************************************************************************)
(* useAnimateOnView                                                        *)
(***************************************************************************)
\* the options argument of each mounted hook instance; triggerOnce is "undefined"
\* when the caller left it out
HookOptions ==
    [none   |-> [given |-> FALSE, triggerOnce |-> "undefined"],
     empty  |-> [given |-> TRUE, triggerOnce |-> "undefined"],
     once   |-> [given |-> TRUE, triggerOnce |-> "true"],
     repeat |-> [given |-> TRUE, triggerOnce |-> "false"]]

Instances == DOMAIN HookOptions

\* options?.triggerOnce
OptionalTriggerOnce(options) ==
    IF options.given THEN options.triggerOnce ELSE "undefined"

\* once: options?.triggerOnce ?? true
InViewOnce(options) ==
    IF OptionalTriggerOnce(options) = "undefined"
    THEN TRUE
    ELSE OptionalTriggerOnce(options) = "true"

\* the effect: if (isInView) controls.start("visible")
\*             else if (!options?.triggerOnce) controls.start("hidden")
AnimateEffect(options, isInView) ==
    IF isInView THEN <<"visible">>
    ELSE IF OptionalTriggerOnce(options) # "true" THEN <<"hidden">>
    ELSE <<>>

\* no instance is mounted and the element is below the fold
ViewIdle ==
    /\ inViewport = FALSE
    /\ aovChanges = 0
    /\ aovMounted = [i \in Instances |-> FALSE]
    /\ aovInView = [i \in Instances |-> FALSE]
    /\ aovObserving = [i \in Instances |-> FALSE]
    /\ aovQueue = [i \in Instances |-> <<>>]
    /\ aovDue = [i \in Instances |-> FALSE]
    /\ aovStarted = [i \in Instances |-> <<>>]

\* the first render of an instance: isInView is false, the effect of the render is
\* due, and the observer that useInView attaches reports the element's current
\* intersection
MountInstance(i) ==
    /\ ~aovMounted[i]
    /\ aovMounted' = [aovMounted EXCEPT ![i] = TRUE]
    /\ aovObserving' = [aovObserving EXCEPT ![i] = TRUE]
    /\ aovQueue' = [aovQueue EXCEPT ![i] = <<inViewport>>]
    /\ aovDue' = [aovDue EXCEPT ![i] = TRUE]
    /\ UNCHANGED <<inViewport, aovChanges, aovInView, aovStarted>>
    /\ UNCHANGED notViewVars

\* the element scrolls into or out of the viewport: every attached observer gets
\* an entry
Scroll ==
    /\ aovChanges < MaxChanges
    /\ inViewport' = ~inViewport
    /\ aovChanges' = aovChanges + 1
    /\ aovQueue' =
           [i \in Instances |->
               IF aovObserving[i] THEN Append(aovQueue[i], ~inViewport)
               ELSE aovQueue[i]]
    /\ UNCHANGED <<aovMounted, aovInView, aovObserving, aovDue, aovStarted>>
    /\ UNCHANGED notViewVars

\* useInView's observer callback for one entry: entering sets isInView and, with
\* once, detaches the observer; leaving after an enter resets isInView; the
\* instance renders again when isInView changed
ObserverCallback(i) ==
    /\ aovQueue[i] # <<>>
    /\ ~aovDue[i]
    /\ LET isIntersecting == Head(aovQueue[i])
           once == InViewOnce(HookOptions[i])
           after == IF ~aovObserving[i] THEN aovInView[i]
                    ELSE IF isIntersecting THEN TRUE
                    ELSE IF aovInView[i] THEN FALSE
                    ELSE aovInView[i]
           detach == aovObserving[i] /\ isIntersecting /\ once
       IN  /\ aovInView' = [aovInView EXCEPT ![i] = after]
           /\ aovObserving' = [aovObserving EXCEPT ![i] = @ /\ ~detach]
           /\ aovQueue' = [aovQueue EXCEPT ![i] = IF detach THEN <<>> ELSE Tail(@)]
           /\ aovDue' = [aovDue EXCEPT ![i] = after # aovInView[i]]
    /\ UNCHANGED <<inViewport, aovChanges, aovMounted, aovStarted>>
    /\ UNCHANGED notViewVars

\* the effect of one instance runs after its render
RunAnimateEffect(i) ==
    /\ aovDue[i]
    /\ aovDue' = [aovDue EXCEPT ![i] = FALSE]
    /\ aovStarted' =
           [aovStarted EXCEPT ![i] = @ \o AnimateEffect(HookOptions[i], aovInView[i])]
    /\ UNCHANGED <<inViewport, aovChanges, aovMounted, aovInView, aovObserving,
                   aovQueue>>
    /\ UNCHANGED notViewVars

ViewNext ==
    \/ \E i \in Instances : MountInstance(i)
    \/ Scroll
    \/ \E i \in Instances : ObserverCallback(i)
    \/ \E i \in Instances : RunAnimateEffect(i)

(***************************************************************************)
(* useCountUp                                                              *)
(***************************************************************************)
\* start: number = 0
CountStart == 0

\* the values of the end argument explored
Targets == {0, 3, 5}

\* a progress that is not capped at 1
ProgressUncapped(elapsed) == elapsed

\* Math.min((timestamp - startTimestamp) / duration, 1), as a number of
\* Duration-ths
Progress(elapsed) == IF elapsed < Duration THEN elapsed ELSE Duration

\* Math.floor(progress * (end - start) + start)
CountAt(end, elapsed) ==
    ((Progress(elapsed) * (end - CountStart)) \div Duration) + CountStart

\* the step callback the effect requests: startTimestamp is still null
NewLoop(gen, end) == [gen |-> gen, end |-> end, elapsed |-> -1]

NoFrame ==
    [frame |-> FALSE, before |-> 0, after |-> 0, writers |-> 0, stale |-> FALSE,
     restarted |-> FALSE]

\* the first render and its effect: count is start and one step is requested
CountMounted ==
    /\ cuCount = CountStart
    /\ cuGen = 1
    /\ cuLoops = <<NewLoop(1, cuEnd)>>
    /\ cuLast = NoFrame

\* if (!startTimestamp) startTimestamp = timestamp; then timestamp - startTimestamp
Elapsed(loop, gap) == IF loop.elapsed < 0 THEN 0 ELSE loop.elapsed + gap

\* one animation frame, gap time units after the previous one: every requested
\* step runs in request order, each sets the count (the last setCount of the
\* frame is the one rendered) and requests another frame while progress < 1
AnimationFrame(gap) ==
    /\ cuLoops # <<>>
    /\ LET stepped == [k \in 1..Len(cuLoops) |->
                          [cuLoops[k] EXCEPT !.elapsed = Elapsed(cuLoops[k], gap)]]
           written == [k \in 1..Len(cuLoops) |->
                          CountAt(stepped[k].end, stepped[k].elapsed)]
       IN  /\ cuCount' = written[Len(cuLoops)]
           /\ cuLoops' = SelectSeq(stepped, LAMBDA l : Progress(l.elapsed) < Duration)
           /\ cuLast' = [frame |-> TRUE, before |-> cuCount,
                         after |-> written[Len(cuLoops)],
                         writers |-> Len(cuLoops),
                         stale |-> \E k \in 1..Len(cuLoops) : cuLoops[k].gen < cuGen,
                         restarted |-> cuLoops[Len(cuLoops)].elapsed < 0]
    /\ UNCHANGED <<cuEnd, cuGen>>
    /\ UNCHANGED notCountVars

\* the component renders with another end: the effect runs again and requests a
\* step of its own; the effect has no cleanup, so the steps requested before stay
Retarget(end) ==
    /\ cuGen <= MaxRetargets
    /\ end # cuEnd
    /\ cuEnd' = end
    /\ cuGen' = cuGen + 1
    /\ cuLoops' = Append(cuLoops, NewLoop(cuGen + 1, end))
    /\ UNCHANGED <<cuCount, cuLast>>
    /\ UNCHANGED notCountVars

CountNext ==
    \/ \E gap \in 1..MaxFrameGap : AnimationFrame(gap)
    \/ \E end \in Targets : Retarget(end)

(***************************************************************************)
(* Claims about the session redirect gates                                 *)
(***************************************************************************)
Authenticated == \E s \in sessions : s.token = cookie

\* C1: for every request to /dashboard the layout renders its navigation and
\* its children only when the session lookup of that request returned a
\* session; when the lookup returned none the outcome is a redirect to
\* /auth/signin and nothing protected is rendered.
C1_DashboardGate ==
    response.route = "/dashboard" =>
        /\ (response.children \/ response.navUser # 0 \/ response.page = "dashboard")
              => (response.session.present /\ response.kind = "render")
        /\ ~response.session.present =>
              /\ response.kind = "redirect"
              /\ response.to = "/auth/signin"
              /\ ~response.children
              /\ response.navUser = 0
              /\ response.page = "none"
        /\ response.session.present =>
              /\ response.kind = "render"
              /\ response.children
              /\ response.navUser = response.session.userId

\* a dashboard request carrying the cookie of an expired session is redirected
C1_Witness ==
    /\ response.route = "/dashboard"
    /\ response.kind = "redirect"
    /\ cookie # NoToken
    /\ servedAfter = "expired"

C3_HomeGate ==
    response.route = "/" =>
        /\ response.session.present =>
              /\ response.kind = "redirect"
              /\ response.to = "/dashboard"
              /\ response.page = "none"
        /\ ~response.session.present =>
              /\ response.kind = "render"
              /\ response.to = "none"
              /\ response.page = "landing"

\* a home request of a signed-in browser is redirected to the dashboard
C3_Witness ==
    /\ response.route = "/"
    /\ response.kind = "redirect"
    /\ response.to = "/dashboard"
    /\ response.session.present

\* while handleSignOut is past its await, and for every request served after the
\* sign-out, the session is gone and no dashboard is shown
SignedOutState ==
    /\ signOutPc \in {"push", "refresh"} =>
           /\ authEvent = "signout"
           /\ cookie = NoToken
           /\ GetSession(RequestHeaders) = NoSession
    /\ (signOutPc \in {"refresh", "idle"} /\ authEvent = "signout"
            /\ servedAfter = "signout") =>
           /\ response.page \in {"landing", "signin", "none"}
           /\ response.kind = "redirect" => response.to = "/auth/signin"
           /\ response.route = "/" => response.kind = "render"

\* the steps of handleSignOut follow each other: signOut resolves, then push("/"),
\* then refresh
SignOutStepOrder ==
    /\ (signOutPc' = "push" /\ signOutPc # "push") =>
           (signOutPc = "awaiting" /\ authEvent' = "signout" /\ response' = response)
    /\ (signOutPc' = "refresh" /\ signOutPc # "refresh") =>
           (signOutPc = "push" /\ response'.route = "/" /\ authEvent = "signout")
    /\ (signOutPc' = "idle" /\ signOutPc # "idle") =>
           (signOutPc = "refresh" /\ authEvent = "signout")
    /\ signOutPc = "awaiting" =>
           (response'.route = "/" /\ response.route # "/" => signOutPc' = "awaiting")

\* C21: handleSignOut calls router.push("/") and then router.refresh() only after
\* signOut() has completed; after a completed sign-out the user is on the home page
\* or on the way to the sign-in page and not on the dashboard, and the home page,
\* finding no session, does not redirect to /dashboard.
C21_SignOutOrdering == []SignedOutState /\ [][SignOutStepOrder]_vars

\* handleSignOut has finished on the landing page while another session still
\* exists on the server
C21_Witness ==
    /\ signOutPc = "idle"
    /\ authEvent = "signout"
    /\ servedAfter = "signout"
    /\ response.route = "/"
    /\ response.page = "landing"
    /\ sessions # {}

GatedRoutes == {"/", "/dashboard"}

\* in the current session state a request for a gated route is rendered or is
\* redirected once to a route that is rendered, and the two gates do not both
\* redirect
RedirectsSettle ==
    /\ \A r \in GatedRoutes :
           Serve(r).kind = "redirect" =>
               /\ Serve(r).to \in {"/dashboard", "/auth/signin"}
               /\ Serve(Serve(r).to).kind = "render"
    /\ ~ (Serve("/").kind = "redirect" /\ Serve("/dashboard").kind = "redirect")
    /\ ~ (Serve("/").to = "/dashboard" /\ Serve("/dashboard").to = "/")

\* following a redirect that was decided on the session state that still holds
\* ends on a rendered page
FollowedRedirectRenders ==
    (hops' = hops + 1 /\ response.kind = "redirect"
        /\ response.session = GetSession(RequestHeaders)
        /\ sessions' = sessions /\ cookie' = cookie) =>
        /\ response'.kind = "render"
        /\ response'.route = response.to

\* C25: navigation between "/" and "/dashboard" never loops: with a fixed session
\* state a request reaches a rendered page after at most one redirect, and the two
\* gates never redirect to each other in alternation.
C25_NoRedirectLoop == []RedirectsSettle /\ [][FollowedRedirectRenders]_vars

\* a signed-in visitor of "/" has followed the one redirect and is on the rendered
\* dashboard
C25_Witness ==
    /\ hops = 1
    /\ response.kind = "render"
    /\ response.route = "/dashboard"
    /\ response.page = "dashboard"
    /\ GetSession(RequestHeaders).present
    /\ Cardinality(sessions) > 1

(***************************************************************************)
(* Claims about the configuration                                          *)
(***************************************************************************)
\* the environment variable that overrides a flag
ToggleVar ==
    [socialAuth |-> "NEXT_PUBLIC_FEATURE_SOCIAL_AUTH",
     twoFactorAuth |-> "NEXT_PUBLIC_FEATURE_2FA",
     maintenanceMode |-> "NEXT_PUBLIC_MAINTENANCE_MODE",
     enableAnalytics |-> "NEXT_PUBLIC_ENABLE_ANALYTICS"]

\* an override is given when the variable is set to one of the two booleans
OverrideGiven(f) ==
    /\ f \in DOMAIN ToggleVar
    /\ procEnv[ToggleVar[f]] \in {Str("true"), Str("false")}

ExpectedFlag(f) ==
    IF OverrideGiven(f) THEN procEnv[ToggleVar[f]] = Str("true") ELSE SchemaDefaults[f]

\* C4: getFeature(flag) returns the environment override when one is given
\* for the flag and the schema default otherwise, and getAllFeatures() returns
\* exactly that merged map, with a boolean for every declared flag.
C4_FlagResolution ==
    /\ lastRead # NoRead => lastRead.value = ExpectedFlag(lastRead.flag)
    /\ lastAll # EmptyObject =>
          /\ DOMAIN lastAll = DeclaredFlags
          /\ \A f \in DeclaredFlags :
                lastAll[f] \in BOOLEAN /\ lastAll[f] = ExpectedFlag(f)

\* both kinds of override are in effect: one turns a default off, one turns
\* a default on, and a flag without a variable keeps its default
C4_Witness ==
    /\ lastRead = [flag |-> "enableAnalytics", value |-> FALSE]
    /\ lastAll # EmptyObject
    /\ lastAll.socialAuth = TRUE
    /\ lastAll.enableCaching = TRUE
    /\ procEnv.NEXT_PUBLIC_FEATURE_2FA = Str("1")

\* C17: with none of the feature environment variables set getAllFeatures() equals
\* the schema default map, and in any environment a flag whose variable is not set
\* (or that has no variable) reads its schema default from getAllFeatures() and
\* getFeature().
C17_DefaultsWithoutOverrides ==
    /\ lastAll # EmptyObject =>
           /\ (\A f \in DOMAIN ToggleVar : procEnv[ToggleVar[f]] = Unset) => lastAll = SchemaDefaults
           /\ \A f \in DeclaredFlags :
                  (f \in DOMAIN ToggleVar => procEnv[ToggleVar[f]] = Unset) =>
                      lastAll[f] = SchemaDefaults[f]
    /\ lastRead # NoRead =>
           ((lastRead.flag \in DOMAIN ToggleVar =>
                 procEnv[ToggleVar[lastRead.flag]] = Unset) =>
                lastRead.value = SchemaDefaults[lastRead.flag])

\* getAllFeatures() was called with no feature variable set and returned the
\* default map, analytics being on
C17_Witness ==
    /\ \A f \in DOMAIN ToggleVar : procEnv[ToggleVar[f]] = Unset
    /\ lastAll = SchemaDefaults
    /\ lastAll.enableAnalytics = TRUE
    /\ lastRead = [flag |-> "enableAnalytics", value |-> TRUE]

\* the values of the explored environments that are URLs, classified by hand
KnownUrls ==
    {Str("postgresql://postgres:pw@localhost:5432/app"), Str("localhost:3000"),
     Str("http://localhost:3000"), Str("https://app.example.com")}

\* the explored secrets of at least 32 characters, classified by hand
KnownLongSecrets == {Str(Secret32), Str(Secret45)}

EnvRequirementsMet ==
    /\ procEnv.DATABASE_URL \in KnownUrls
    /\ procEnv.NEXT_PUBLIC_APP_URL \in KnownUrls
    /\ procEnv.BETTER_AUTH_URL \in KnownUrls
    /\ procEnv.BETTER_AUTH_SECRET \in KnownLongSecrets
    /\ procEnv.NODE_ENV \in {Unset, Str("development"), Str("production"), Str("test")}

\* C5: environment validation succeeds exactly when the three URL variables
\* are URLs, the secret has at least 32 characters and NODE_ENV is absent or
\* one of development, production, test; an absent NODE_ENV resolves to
\* development; when validation fails it throws and no env object exists.
C5_EnvValidation ==
    envStatus # "unloaded" =>
        /\ envStatus = "ok" <=> EnvRequirementsMet
        /\ envStatus = "ok" =>
              /\ env # NoEnv
              /\ env.NODE_ENV =
                    (IF procEnv.NODE_ENV.set THEN procEnv.NODE_ENV.val ELSE "development")
              /\ env.DATABASE_URL = procEnv.DATABASE_URL.val
              /\ env.BETTER_AUTH_SECRET = procEnv.BETTER_AUTH_SECRET.val
        /\ envStatus = "threw" => env = NoEnv

\* validation succeeded with NODE_ENV absent and a secret of exactly 32 characters
C5_Witness ==
    /\ envStatus = "ok"
    /\ ~procEnv.NODE_ENV.set
    /\ env.NODE_ENV = "development"
    /\ procEnv.BETTER_AUTH_SECRET = Str(Secret32)

FeatureToggleVars == {"NEXT_PUBLIC_FEATURE_SOCIAL_AUTH", "NEXT_PUBLIC_FEATURE_2FA"}

\* C6: the NEXT_PUBLIC_FEATURE_* toggles are validated at startup: once the
\* env module has been evaluated, a toggle holding anything but "true" or
\* "false" has made validation throw.
C6_TogglesValidated ==
    (/\ envStatus # "unloaded"
     /\ \E v \in FeatureToggleVars :
           procEnv[v].set /\ procEnv[v].val \notin {"true", "false"})
        => envStatus = "threw"

\* C24: for every declared flag and every environment useFeature(flag) on the
\* client returns the same boolean as getFeature(flag) on the server.
C24_ClientServerAgree ==
    (lastRead # NoRead /\ lastHook # NoRead /\ lastRead.flag = lastHook.flag) =>
        lastHook.value = lastRead.value

\* C29: the database client and the auth instance are created only after the
\* environment schema validation has succeeded: with a missing or invalid
\* DATABASE_URL or a BETTER_AUTH_SECRET shorter than 32 characters neither of them
\* is ever created.
C29_ValidatedBeforeUse ==
    /\ (dbClient.created \/ authInstance.created) => envStatus = "ok"
    /\ EnvSchemaParse(EnvInput).threw => (~dbClient.created /\ ~authInstance.created)

(***************************************************************************)
(* Claims about the theme provider                                         *)
(***************************************************************************)
ThemeValues == {"light", "dark"}

\* C7: the theme exposed by the context is "light" or "dark" in every
\* reachable state, whatever the storage key holds.
C7_ThemeTwoValued ==
    mounted => (theme \in ThemeValues /\ ThemeState \in ThemeValues)

\* C8: once the mount effect has run and after every toggleTheme call (the
\* provider having rendered), the root element carries exactly one of the
\* classes dark and light, the one equal to the theme state; after a
\* toggleTheme call the storage key holds the theme state.
C8_Mirroring ==
    (mounted /\ effectRan /\ pending = <<>>) =>
        /\ classList \cap ThemeValues = {theme}
        /\ hist # <<>> => storage = Str(theme)

\* C9: every toggleTheme call changes the theme and the class of the root
\* element, and two successive calls restore the theme, the class and the
\* stored value (when a theme was stored) that held before the first of them,
\* whether or not the provider rendered between the two calls.
C9_ToggleInvolution ==
    (mounted /\ pending = <<>> /\ hist # <<>>
        /\ hist[1].theme \in ThemeValues) =>
        /\ theme # hist[Len(hist)].theme
        /\ classList # hist[Len(hist)].classes
        /\ Len(hist) = 2 =>
              /\ theme = hist[1].theme
              /\ classList = hist[1].classes
              /\ hist[1].storage.val \in ThemeValues => storage = hist[1].storage

\* C10: after a reload the theme after the mount effect is the theme that was
\* current before the unmount; with no stored value the provider mounts as
\* dark, and mounting never writes the storage key.
C10_PersistenceRoundTrip ==
    /\ (mounted /\ effectRan /\ hist = <<>> /\ beforeUnmount # NoSnapshot)
          => ThemeState = beforeUnmount.theme
    /\ (mounted /\ ~storage0.set /\ ~toggled)
          => (ThemeState = "dark" /\ classList = {"dark"} /\ ~storage.set)
    /\ ~toggled => storage = storage0

\* a provider that started without a stored value, was toggled to light and
\* reloaded, shows light again
C10_Witness ==
    /\ mounted
    /\ effectRan
    /\ pending = <<>>
    /\ hist = <<>>
    /\ ~storage0.set
    /\ beforeUnmount.theme = "light"
    /\ theme = "light"
    /\ classList = {"light"}


\* C11: useTheme outside any ThemeProvider throws "useTheme must be used within
\* ThemeProvider" and returns no value; under a provider it does not throw and
\* returns the provider's current theme together with toggleTheme.
C11_UseThemeGuard ==
    lastUse.called =>
        IF lastUse.inside
        THEN /\ ~lastUse.result.threw
             /\ lastUse.result.value.defined
             /\ lastUse.result.value.theme = lastUse.rendered
             /\ lastUse.result.value.toggleTheme = "toggleTheme"
        ELSE /\ lastUse.result.threw
             /\ lastUse.result.message = "useTheme must be used within ThemeProvider"
             /\ ~lastUse.result.value.defined

\* useTheme has thrown for a component outside the provider while a provider
\* showing the light theme is mounted elsewhere
C11_Witness ==
    /\ lastUse.called
    /\ ~lastUse.inside
    /\ lastUse.result.threw
    /\ mounted
    /\ theme = "light"

(***************************************************************************)
(* Claims about the logger                                                 *)
(***************************************************************************)
\* the field names and request headers the claim calls sensitive
SensitivePaths ==
    {<<"password">>, <<"token">>, <<"apiKey">>, <<"secret">>,
     <<"req", "headers", "authorization">>, <<"req", "headers", "cookie">>}

\* C12: no written log line contains a value the caller supplied under the field
\* names password, token, apiKey or secret, or as the authorization or cookie
\* request header, whichever helper wrote the line.
C12_Redaction ==
    logLine.written =>
        \A e \in logLine.supplied :
            e.path \in SensitivePaths => \A w \in logLine.line : w.val # e.val

(***************************************************************************)
(* Claims about the middleware                                             *)
(***************************************************************************)
SecurityHeaderNames ==
    {"X-XSS-Protection", "X-Content-Type-Options", "Referrer-Policy",
     "Permissions-Policy", "X-Frame-Options", "Content-Security-Policy"}

\* C13: every response the middleware returns, the OPTIONS preflight reply on /api
\* paths included, carries the six security headers, X-Frame-Options being DENY and
\* Content-Security-Policy being the production policy exactly when NODE_ENV is
\* "production".
C13_SecurityHeaders ==
    mwResponse.kind # "none" =>
        /\ SecurityHeaderNames \subseteq HeaderNames(mwResponse.headers)
        /\ <<"X-Frame-Options", "DENY">> \in mwResponse.headers
        /\ \A h \in mwResponse.headers :
               h[1] = "Content-Security-Policy" =>
                   h[2] = IF mwEnv.NODE_ENV = Str("production")
                          THEN ProductionCsp
                          ELSE DevelopmentCsp

\* a preflight reply in production that also carries the CORS headers
C13_Witness ==
    /\ mwResponse.kind = "preflight"
    /\ mwRequest.method = "OPTIONS"
    /\ mwEnv.NODE_ENV = Str("production")
    /\ <<"Content-Security-Policy", ProductionCsp>> \in mwResponse.headers
    /\ "Access-Control-Allow-Origin" \in HeaderNames(mwResponse.headers)

\* t occurs in s
Contains(s, t) ==
    \E i \in 1..(Len(s) + 1) :
        i + Len(t) - 1 <= Len(s) /\ SubSeq(s, i, i + Len(t) - 1) = t

\* o is one of the comma-separated entries of csv
ListedIn(csv, o) ==
    /\ ~Contains(o, ",")
    /\ Contains("," \o csv \o ",", "," \o o \o ",")

\* the allowed list as stated: ALLOWED_ORIGINS, or when unset NEXT_PUBLIC_APP_URL,
\* or http://localhost:3000 when that is unset too
StatedAllowed(o) ==
    IF mwEnv.ALLOWED_ORIGINS.set
    THEN ListedIn(mwEnv.ALLOWED_ORIGINS.val, o)
    ELSE IF mwEnv.NEXT_PUBLIC_APP_URL.set
         THEN o = mwEnv.NEXT_PUBLIC_APP_URL.val
         ELSE o = "http://localhost:3000"

\* the allowed list with the fallback taken also for an empty NEXT_PUBLIC_APP_URL
FallbackAllowed(o) ==
    IF mwEnv.ALLOWED_ORIGINS.set
    THEN ListedIn(mwEnv.ALLOWED_ORIGINS.val, o)
    ELSE IF mwEnv.NEXT_PUBLIC_APP_URL.set /\ mwEnv.NEXT_PUBLIC_APP_URL.val # ""
         THEN o = mwEnv.NEXT_PUBLIC_APP_URL.val
         ELSE o = "http://localhost:3000"

AccessControlNames(hs) ==
    {n \in HeaderNames(hs) :
        Len(n) >= Len("Access-Control-")
            /\ SubSeq(n, 1, Len("Access-Control-")) = "Access-Control-"}

\* the CORS rule, listed telling whether the request origin is in the allowed list
CorsRule(listed) ==
    mwResponse.kind # "none" =>
        LET hs == mwResponse.headers
            origin == mwRequest.origin
        IN  /\ "Access-Control-Allow-Origin" \in HeaderNames(hs) =>
                   /\ StartsWithApi(mwRequest.pathname)
                   /\ listed
                   /\ \A h \in hs :
                          h[1] = "Access-Control-Allow-Origin" => h[2] = origin.val
            /\ (~StartsWithApi(mwRequest.pathname) \/ ~listed) =>
                   AccessControlNames(hs) = {}

\* C14 as stated: Access-Control-Allow-Origin only on /api paths for a request
\* origin in the allowed list (ALLOWED_ORIGINS, or when unset NEXT_PUBLIC_APP_URL,
\* or http://localhost:3000 when that is unset too), its value that origin; no
\* Access-Control-* header for a missing or unlisted origin or off /api.
C14_CorsAsStated ==
    CorsRule(mwRequest.origin.set /\ StatedAllowed(mwRequest.origin.val))

\* C14 amended: the same rule with http://localhost:3000 as the single allowed
\* origin when NEXT_PUBLIC_APP_URL is unset or empty.
C14_CorsValidation ==
    CorsRule(mwRequest.origin.set /\ FallbackAllowed(mwRequest.origin.val))

\* with NEXT_PUBLIC_APP_URL set to the empty string a preflight from
\* http://localhost:3000 is answered with the CORS headers
C14_Witness ==
    /\ ~mwEnv.ALLOWED_ORIGINS.set
    /\ mwEnv.NEXT_PUBLIC_APP_URL = Str("")
    /\ mwRequest.method = "OPTIONS"
    /\ mwRequest.origin = Str("http://localhost:3000")
    /\ <<"Access-Control-Allow-Origin", "http://localhost:3000">> \in mwResponse.headers

(***************************************************************************)
(* Claims about the auth tables                                            *)
(***************************************************************************)
\* the tables are consistent: foreign keys resolve, unique columns are distinct
TablesConsistent ==
    /\ \A r \in dbSessions : \E u \in dbUsers : u.id = r.userId
    /\ \A r \in dbAccounts : \E u \in dbUsers : u.id = r.userId
    /\ \A u, v \in dbUsers : u.email = v.email => u = v
    /\ \A q, r \in dbSessions : q.token = r.token => q = r

\* a step that removes a user row removes exactly the rows that user owned
DeletionCascades ==
    \A u \in dbUsers \ dbUsers' :
        /\ \A r \in dbSessions : r \in dbSessions' <=> r.userId # u.id
        /\ \A r \in dbAccounts : r \in dbAccounts' <=> r.userId # u.id
        /\ dbSessions' \subseteq dbSessions
        /\ dbAccounts' \subseteq dbAccounts
        /\ dbUsers' = dbUsers \ {u}

\* C15: under any sequence of row creations and user deletions every session row
\* and every account row references an existing user row, user emails and session
\* tokens stay pairwise distinct, and deleting a user deletes all sessions and
\* accounts owned by that user and no row owned by another user.
C15_ReferentialIntegrity == []TablesConsistent /\ [][DeletionCascades]_vars

\* a user owning a session and an account was deleted while another user's session
\* and account stayed
C15_Witness ==
    /\ lastDelete.happened
    /\ lastDelete.cascaded
    /\ lastDelete.kept
    /\ dbSessions # {}
    /\ dbAccounts # {}
    /\ \A u \in dbUsers : u.id # lastDelete.userId

(***************************************************************************)
(* Claims about the server action patterns                                 *)
(***************************************************************************)
\* C16: no exception escapes a server action; the result is the success shape with
\* the data or {success: false, error: string}; a thrown Error yields its message, a
\* thrown non-Error the generic message "Unknown error"; input with a required
\* field missing yields the failure shape without performing the operation.
C16_ActionBoundary ==
    actionCall.fn # "none" =>
        LET out == actionCall.outcome
        IN  /\ ~out.escaped
            /\ out.result.success \in BOOLEAN
            /\ out.result.success =>
                   /\ actionCall.performed
                   /\ out.result.user.name = actionCall.data.name.val
                   /\ out.result.user.email = actionCall.data.email.val
            /\ ~out.result.success => DOMAIN out.result = {"success", "error"}
            /\ actionCall.fn = "simulateDbError" =>
                   /\ ~out.result.success
                   /\ actionCall.thrown.isError =>
                          out.result.error = actionCall.thrown.message
                   /\ ~actionCall.thrown.isError => out.result.error = "Unknown error"
            /\ (/\ actionCall.fn = "createUser"
                /\ \/ actionCall.data.name \in {Unset, Str("")}
                   \/ actionCall.data.email \in {Unset, Str("")}) =>
                   /\ ~out.result.success
                   /\ ~actionCall.performed

\* an operation threw an Error and the component received its message in the
\* failure shape
C16_Witness ==
    /\ actionCall.fn = "simulateDbError"
    /\ actionCall.thrown = [isError |-> TRUE, message |-> "Database connection failed"]
    /\ actionCall.outcome =
           Returned([success |-> FALSE, error |-> "Database connection failed"])

(***************************************************************************)
(* Claims about the password forms                                         *)
(***************************************************************************)
\* the last submit of the reset form issued a request
ResetRequestIssued == rpLast.ended \in {"awaiting", "resolved", "threw"}

\* C18: a submit of ResetPasswordForm issues the resetPassword request only when a
\* token is present in the URL and password equals confirmPassword; with a missing
\* token the error "Invalid or missing reset token" is set, with differing passwords
\* the error "Passwords do not match", and in both cases no request is issued and
\* no navigation happens.
C18_ResetSubmitChecks ==
    /\ ResetRequestIssued =>
           /\ rpToken \notin {Unset, Str("")}
           /\ rpLast.password = rpLast.confirmPassword
           /\ Len(rpRequests) = rpLast.requestsBefore + 1
           /\ rpRequests[Len(rpRequests)] =
                  [newPassword |-> rpLast.password, token |-> rpToken.val]
    /\ rpLast.ended = "rejected by checks" =>
           /\ Len(rpRequests) = rpLast.requestsBefore
           /\ rpNav = "none"
           /\ rpPc = "idle"
           /\ rpError = IF rpToken \in {Unset, Str("")}
                        THEN Str("Invalid or missing reset token")
                        ELSE Str("Passwords do not match")
           /\ rpToken \in {Unset, Str("")} \/ rpLast.password # rpLast.confirmPassword
    /\ \A t \in TokenSamples, p, c \in PasswordSamples :
           LET r == SubmitChecks(t, p, c)
           IN  /\ t \in {Unset, Str("")} =>
                      r = [request |-> FALSE, error |-> Str("Invalid or missing reset token")]
               /\ (t \notin {Unset, Str("")} /\ p # c) =>
                      r = [request |-> FALSE, error |-> Str("Passwords do not match")]
               /\ r.request => (t \notin {Unset, Str("")} /\ p = c)

\* after a request that failed, a submit with differing passwords was turned down
\* with its error and without a second request
C18_Witness ==
    /\ rpLast.ended = "rejected by checks"
    /\ rpLast.password # rpLast.confirmPassword
    /\ rpError = Str("Passwords do not match")
    /\ Len(rpRequests) = 1
    /\ rpNav = "none"

\* C19: ResetPasswordForm navigates to /auth/signin?reset=success only after the
\* resetPassword request of that submit completed without throwing; when it throws
\* there is no navigation and the error is the Error's message, or "Failed to reset
\* password" for a non-Error; a submit clears the error of the previous one.
C19_ResetNavigation ==
    /\ rpNav # "none" =>
           /\ rpNav = "/auth/signin?reset=success"
           /\ rpLast.ended = "resolved"
           /\ Len(rpRequests) = rpLast.requestsBefore + 1
    /\ rpLast.ended = "threw" =>
           /\ rpNav = "none"
           /\ rpLast.thrown.isError => rpError = Str(rpLast.thrown.message)
           /\ ~rpLast.thrown.isError => rpError = Str("Failed to reset password")
    /\ rpLast.ended = "awaiting" =>
           /\ rpNav = "none"
           /\ rpError = Unset
    /\ rpLast.ended = "resolved" => rpError = Unset

\* a second submit is waiting for its request: the error the first request left
\* has been cleared
C19_Witness ==
    /\ rpLast.ended = "awaiting"
    /\ rpPc = "awaiting"
    /\ Len(rpRequests) = 2
    /\ rpError = Unset
    /\ rpNav = "none"

\* C20: ForgotPasswordForm moves form -> submitting -> (sent | form with error): the
\* "Check Your Email" confirmation is shown only after a forgetPassword request
\* completed without throwing and names the email of the most recent submit, "Try
\* Different Email" returns to the form, and emailSent implies an empty error.
C20_ForgotStateMachine ==
    /\ fpEmailSent => fpError = Unset
    /\ ForgotScreen = "sent" =>
           /\ fpLast.kind = "resolved"
           /\ fpRequests # <<>>
           /\ ConfirmationEmail = fpRequests[Len(fpRequests)].email
           /\ ConfirmationEmail = fpLast.email
    /\ ForgotScreen = "submitting" <=> fpLast.kind = "submitted"
    /\ fpLast.kind = "submitted" => fpPc = "awaiting" /\ fpError = Unset
    /\ fpLast.kind = "threw" =>
           /\ ForgotScreen = "form"
           /\ fpError # Unset
           /\ fpLast.thrown.isError => fpError = Str(fpLast.thrown.message)
           /\ ~fpLast.thrown.isError => fpError = Str("Failed to send reset email")
    /\ fpLast.kind = "try different email" =>
           /\ ForgotScreen = "form"
           /\ fpError = Unset
    /\ fpLast.kind = "none" => ForgotScreen = "form" /\ fpError = Unset

\* after a failed request and a second submit with another address the
\* confirmation names that second address
C20_Witness ==
    /\ ForgotScreen = "sent"
    /\ Len(fpRequests) = 2
    /\ fpRequests[1].email = "test@example.com"
    /\ ConfirmationEmail = "other@example.com"
    /\ fpError = Unset

\* a request of a form is issued only when none of that form is pending
IssuedOnlyWhenIdle ==
    /\ Len(rpRequests') > Len(rpRequests) =>
           /\ rpPc = "idle" /\ ~rpLoading
           /\ Len(rpRequests') = Len(rpRequests) + 1
           /\ rpPc' = "awaiting" /\ rpLoading'
    /\ Len(fpRequests') > Len(fpRequests) =>
           /\ fpPc = "idle" /\ ~fpLoading
           /\ Len(fpRequests') = Len(fpRequests) + 1
           /\ fpPc' = "awaiting" /\ fpLoading'

\* while a request is pending the form is loading: isLoading is what disables its
\* button and inputs
PendingMeansDisabled ==
    /\ rpPc = "awaiting" => rpLoading
    /\ fpPc = "awaiting" => fpLoading

\* C27: in ResetPasswordForm and in ForgotPasswordForm, while a submit's request is
\* pending (isLoading true, button and inputs disabled) no second resetPassword or
\* forgetPassword request is issued, for every interleaving of submit events and
\* request completions.
C27_OneRequestInFlight == []PendingMeansDisabled /\ [][IssuedOnlyWhenIdle]_vars

\* both forms have a request pending, the reset form its second one
C27_Witness ==
    /\ rpPc = "awaiting" /\ Len(rpRequests) = 2
    /\ fpPc = "awaiting" /\ Len(fpRequests) >= 1

\* C28: for every submit of either form, on every path (missing token, password
\* mismatch, request resolved, request thrown) isLoading is false once the submit
\* handler has finished: the form is never left disabled after a finished submit.
C28_LoadingReleased ==
    /\ rpPc = "idle" => ~rpLoading
    /\ fpPc = "idle" => ~fpLoading
    /\ \A token \in TokenSamples, password, confirmPassword \in PasswordSamples :
           LET r == SubmitChecks(token, password, confirmPassword)
           IN  (TokenMissing(token) \/ password # confirmPassword) => ~r.request
    /\ rpLast.ended \in {"rejected by checks", "resolved", "threw"} =>
           (rpPc = "idle" /\ ~rpLoading)
    /\ fpLast.kind \in {"resolved", "threw", "try different email"} =>
           (fpPc = "idle" /\ ~fpLoading)

\* a reset submit has ended in the catch block and a forgot submit has resolved
C28_Witness ==
    /\ rpLast.ended = "threw" /\ ~rpLoading
    /\ fpLast.kind = "resolved" /\ ~fpLoading
    /\ Len(rpRequests) = 1

(***************************************************************************)
(* Claims about the animation hooks                                        *)
(***************************************************************************)
\* C23: triggerOnce defaults to true: the hook called with no options starts the
\* same animations as the hook called with {triggerOnce: true} for every sequence
\* of visibility changes, "visible" on entering the view and "hidden" never.
C23_DefaultTriggerOnce ==
    /\ InViewOnce(HookOptions["none"]) = InViewOnce(HookOptions["once"])
    /\ \A i \in {"none", "once"} :
           aovStarted[i] =
               IF aovInView[i] /\ ~aovDue[i] THEN <<"visible">> ELSE <<>>

C26_SingleWriter ==
    cuLast.frame =>
        /\ cuLast.writers <= 1
        /\ ~cuLast.stale
        /\ cuCount >= CountStart /\ cuCount <= cuEnd
        /\ ~cuLast.restarted => cuLast.before <= cuLast.after

(***************************************************************************)
(* Specifications                                                          *)
(***************************************************************************)
\* a subsystem a specification does not exercise stays in its documented start state
ConfigParked == procEnv = DocumentedEnv /\ ConfigIdle

ThemeParked == storage = Unset /\ ThemeIdle

LoggerParked == logEnv = DocumentedLogEnv /\ LoggerIdle

MiddlewareParked == mwEnv = DocumentedMwEnv /\ MiddlewareIdle

ResetParked == rpToken = Str("tok-123") /\ ResetIdle

CountParked == cuEnd = CountStart /\ CountMounted

\* the gates: requests, sign-in, sign-out and expiry under a fixed deployment
InitGate ==
    /\ GateInit
    /\ ConfigParked
    /\ ThemeParked
    /\ LoggerParked
    /\ MiddlewareParked
    /\ DbIdle
    /\ ActionIdle
    /\ ResetParked
    /\ ForgotIdle
    /\ ViewIdle
    /\ CountParked
    /\ StartupIdle

SpecGate == InitGate /\ [][GateNext]_vars

\* startup: the env module and the flags module under every explored environment
InitEnv ==
    /\ GateInit
    /\ procEnv \in StartupEnvs /\ ConfigIdle
    /\ ThemeParked
    /\ LoggerParked
    /\ MiddlewareParked
    /\ DbIdle
    /\ ActionIdle
    /\ ResetParked
    /\ ForgotIdle
    /\ ViewIdle
    /\ CountParked
    /\ StartupIdle

NextEnv == LoadEnvModule \/ LoadFeatureFlags

SpecEnv == InitEnv /\ [][NextEnv]_vars

\* flag reads under every explored combination of toggles
InitFlags ==
    /\ GateInit
    /\ procEnv \in FlagEnvs /\ ConfigIdle
    /\ ThemeParked
    /\ LoggerParked
    /\ MiddlewareParked
    /\ DbIdle
    /\ ActionIdle
    /\ ResetParked
    /\ ForgotIdle
    /\ ViewIdle
    /\ CountParked
    /\ StartupIdle

NextFlags ==
    \/ LoadFeatureFlags
    \/ \E flag \in DeclaredFlags : GetFeature(flag)
    \/ GetAllFeatures

SpecFlags == InitFlags /\ [][NextFlags]_vars

\* four instances of useAnimateOnView on one element that scrolls in and out
InitView ==
    /\ GateInit
    /\ ConfigParked
    /\ ThemeParked
    /\ LoggerParked
    /\ MiddlewareParked
    /\ DbIdle
    /\ ActionIdle
    /\ ResetParked
    /\ ForgotIdle
    /\ ViewIdle
    /\ CountParked
    /\ StartupIdle

SpecView == InitView /\ [][ViewNext]_vars

\* startup: the env, db and auth modules are evaluated in any order
InitStartup ==
    /\ GateInit
    /\ procEnv \in StartupEnvs /\ ConfigIdle
    /\ ThemeParked
    /\ LoggerParked
    /\ MiddlewareParked
    /\ DbIdle
    /\ ActionIdle
    /\ ResetParked
    /\ ForgotIdle
    /\ ViewIdle
    /\ CountParked
    /\ StartupIdle

NextStartup == LoadEnvModule \/ LoadDbModule \/ LoadAuthModule

SpecStartup == InitStartup /\ [][NextStartup]_vars

\* both password forms on their pages, submitted and answered in every order
InitForms ==
    /\ GateInit
    /\ ConfigParked
    /\ ThemeParked
    /\ LoggerParked
    /\ MiddlewareParked
    /\ DbIdle
    /\ ActionIdle
    /\ ResetParked
    /\ ForgotIdle
    /\ ViewIdle
    /\ CountParked
    /\ StartupIdle

FormPasswords == {"hunter2hunter2", "correct horse"}

FormEmails == {"test@example.com"}

FormErrors == {[isError |-> TRUE, message |-> "Invalid token"],
               [isError |-> FALSE, message |-> "Invalid token"]}

NextForms ==
    \/ \E password, confirmPassword \in FormPasswords :
           SubmitReset(password, confirmPassword)
    \/ ResetResolved
    \/ \E thrown \in FormErrors : ResetRejected(thrown)
    \/ \E emailValue \in FormEmails : SubmitForgot(emailValue)
    \/ ForgotResolved
    \/ \E thrown \in FormErrors : ForgotRejected(thrown)
    \/ TryDifferentEmail

SpecForms == InitForms /\ [][NextForms]_vars

\* one useCountUp whose target changes while frames arrive
InitCount ==
    /\ GateInit
    /\ ConfigParked
    /\ ThemeParked
    /\ LoggerParked
    /\ MiddlewareParked
    /\ DbIdle
    /\ ActionIdle
    /\ ResetParked
    /\ ForgotIdle
    /\ ViewIdle
    /\ cuEnd \in Targets /\ CountMounted
    /\ StartupIdle

SpecCount == InitCount /\ [][CountNext]_vars

\* animation frames keep arriving while a step is requested
SpecCountFair ==
    SpecCount /\ WF_vars(\E gap \in 1..MaxFrameGap : AnimationFrame(gap))

\* the same flag read on the server and on the client under every explored setting
\* of the toggles
InitClientFlags ==
    /\ GateInit
    /\ procEnv \in ClientFlagEnvs /\ ConfigIdle
    /\ ThemeParked
    /\ LoggerParked
    /\ MiddlewareParked
    /\ DbIdle
    /\ ActionIdle
    /\ ResetParked
    /\ ForgotIdle
    /\ ViewIdle
    /\ CountParked
    /\ StartupIdle

NextClientFlags ==
    \/ LoadFeatureFlags
    \/ \E flag \in DeclaredFlags : GetFeature(flag)
    \/ \E flag \in DeclaredFlags : UseFeature(flag)

SpecClientFlags == InitClientFlags /\ [][NextClientFlags]_vars

\* the theme provider under every explored content of the storage key
InitTheme ==
    /\ GateInit
    /\ ConfigParked
    /\ storage \in StorageSamples /\ ThemeIdle
    /\ LoggerParked
    /\ MiddlewareParked
    /\ DbIdle
    /\ ActionIdle
    /\ ResetParked
    /\ ForgotIdle
    /\ ViewIdle
    /\ CountParked
    /\ StartupIdle

SpecTheme == InitTheme /\ [][ThemeNext]_vars

\* the logger under every explored LOG_LEVEL and NODE_ENV
InitLogger ==
    /\ GateInit
    /\ ConfigParked
    /\ ThemeParked
    /\ logEnv \in LogEnvSamples /\ LoggerIdle
    /\ MiddlewareParked
    /\ DbIdle
    /\ ActionIdle
    /\ ResetParked
    /\ ForgotIdle
    /\ ViewIdle
    /\ CountParked
    /\ StartupIdle

SpecLogger == InitLogger /\ [][LoggerNext]_vars

\* the middleware under every explored deployment environment
InitMiddleware ==
    /\ GateInit
    /\ ConfigParked
    /\ ThemeParked
    /\ LoggerParked
    /\ mwEnv \in MwEnvSamples /\ MiddlewareIdle
    /\ DbIdle
    /\ ActionIdle
    /\ ResetParked
    /\ ForgotIdle
    /\ ViewIdle
    /\ CountParked
    /\ StartupIdle

SpecMiddleware == InitMiddleware /\ [][MiddlewareNext]_vars

\* the auth tables, starting empty
InitDb ==
    /\ GateInit
    /\ ConfigParked
    /\ ThemeParked
    /\ LoggerParked
    /\ MiddlewareParked
    /\ DbIdle
    /\ ActionIdle
    /\ ResetParked
    /\ ForgotIdle
    /\ ViewIdle
    /\ CountParked
    /\ StartupIdle

SpecDb == InitDb /\ [][DbNext]_vars

\* the server action patterns called by a component
InitAction ==
    /\ GateInit
    /\ ConfigParked
    /\ ThemeParked
    /\ LoggerParked
    /\ MiddlewareParked
    /\ DbIdle
    /\ ActionIdle
    /\ ResetParked
    /\ ForgotIdle
    /\ ViewIdle
    /\ CountParked
    /\ StartupIdle

SpecAction == InitAction /\ [][ActionNext]_vars

\* the reset page opened with every explored token parameter
InitResetForm ==
    /\ GateInit
    /\ ConfigParked
    /\ ThemeParked
    /\ LoggerParked
    /\ MiddlewareParked
    /\ DbIdle
    /\ ActionIdle
    /\ rpToken \in TokenSamples /\ ResetIdle
    /\ ForgotIdle
    /\ ViewIdle
    /\ CountParked
    /\ StartupIdle

SpecResetForm == InitResetForm /\ [][ResetNext]_vars

\* the forgot-password page
InitForgotForm ==
    /\ GateInit
    /\ ConfigParked
    /\ ThemeParked
    /\ LoggerParked
    /\ MiddlewareParked
    /\ DbIdle
    /\ ActionIdle
    /\ ResetParked
    /\ ForgotIdle
    /\ ViewIdle
    /\ CountParked
    /\ StartupIdle

SpecForgotForm == InitForgotForm /\ [][ForgotNext]_vars


====
